---- MODULE Spec2Model ----
(***************************************************************************)
(* Model of danmu_api/utils/merge-util.js: the source-merge orchestrator   *)
(* applyMergeLogic and the helpers it calls.                               *)
(*                                                                         *)
(* Text is modelled by TLA+ strings (Len, SubSeq and \o work on them);     *)
(* fractional scores are exact rationals <<numerator, denominator>>.       *)
(***************************************************************************)
EXTENDS Integers, Sequences, FiniteSets, TLC

\* ------------------------------------------------------------------------
\* Bounds of the model
\* ------------------------------------------------------------------------

\* number of entries in the search-result list handed to applyMergeLogic
NumEntries == 4

\* number of successive applyMergeLogic calls on the same list and cache
MaxRuns == 2

\* the largest number of episodes of the entries of a matching pair
MaxPairEpisodes == 4

\* the largest number of episodes of the primary entry at the acceptance gate
MaxGateEpisodes == 12

\* the longest text cleanText is called with
MaxTextLen == 3

\* the longest string the similarity functions are called with
MaxNameLen == 3

\* the longest list of links findBestAlignmentOffset is called with
MaxAlignLen == 3

\* the longest candidate list findSecondaryMatch is called with
MaxCandidates == 2

\* the largest episode count checkMediaTypeMismatch is called with
MaxCount == 7

MaxSpecialLen == 3

\* ------------------------------------------------------------------------
\* Program constants
\* ------------------------------------------------------------------------

MERGE_DELIMITER == "$$$"

DISPLAY_CONNECTOR == "&"

\* lower bound and modulus of the merged-id range
IdBase == 1000000000

\* ------------------------------------------------------------------------
\* State
\* ------------------------------------------------------------------------

VARIABLES
  curAnimes,              \* the list handed to applyMergeLogic
  animes,                 \* globals.animes, the cache
  linkStore,              \* the link arrays: an entry's links is an index here
  mergeSourcePairs,       \* globals.mergeSourcePairs
  episodeTitleFilter,     \* globals.episodeTitleFilter
  pc,                     \* position in applyMergeLogic
  runs,                   \* the number of calls of applyMergeLogic that returned
  groupIdx,                    \* index of the group being processed
  rotIdx,                    \* rotation index in fullPriorityList
  primaryItems,           \* the primaryItems of the rotation step
  primIdx,                    \* index in primaryItems
  secIdx,                    \* index in availableSecondaries
  derivedAnime,
  actualMergedSources,
  contentSignatureParts,
  hasMergedAny,
  newMergedAnimes,
  generatedSignatures,
  globalConsumedIds,
  groupConsumedIds,
  emitted,                \* history: the merged entries emitted, in order
  lastTry,                \* history: what the last secondary attempt did
  lastPrimary,            \* history: the primary entry being processed
  fused,                  \* history: per link of derivedAnime, the fusions
  cache0,                 \* history: the cache and links when the call began
  idInput,                \* generateSafeMergedId: the arguments of the call
  idStr,                  \* generateSafeMergedId: str
  idPos,                  \* generateSafeMergedId: the loop index, from 1
  idHash,                 \* generateSafeMergedId: hash
  idResult,               \* generateSafeMergedId: <<>>, then <<returned value>>
  logs,                   \* the calls of log(level, ...) made by the current call
  fn,                     \* the helper function being called on its own, or ""
  fnArgs,                 \* its arguments
  fnResult                \* the values it returned, in order

vars ==
  <<curAnimes, animes, linkStore, mergeSourcePairs, episodeTitleFilter, pc,
    runs, groupIdx, rotIdx, primaryItems, primIdx, secIdx,
    derivedAnime, actualMergedSources,
    contentSignatureParts, hasMergedAny, newMergedAnimes, generatedSignatures,
    globalConsumedIds, groupConsumedIds, emitted, lastTry, lastPrimary, fused,
    cache0, idInput, idStr, idPos, idHash, idResult, logs, fn, fnArgs, fnResult>>

loopVars == <<groupIdx, rotIdx, primaryItems, primIdx, secIdx>>

primaryVars ==
  <<derivedAnime, actualMergedSources, contentSignatureParts, hasMergedAny, fused,
    lastPrimary>>

configVars == <<mergeSourcePairs, episodeTitleFilter>>

idVars == <<idInput, idStr, idPos, idHash, idResult>>

fnVars == <<fn, fnArgs, fnResult>>

runVars == <<newMergedAnimes, generatedSignatures, globalConsumedIds>>

\* ------------------------------------------------------------------------
\* String helpers (JavaScript String methods)
\* ------------------------------------------------------------------------

Min2(a, b) == IF a < b THEN a ELSE b

Max2(a, b) == IF a > b THEN a ELSE b

CharAt(s, k) == SubSeq(s, k, k)

\* the value computed for one binding of the names: the element of a
\* one-element set
TheOne(S) == CHOOSE x \in S : TRUE

\* s.startsWith(p)
StartsWith(s, p) == Len(p) <= Len(s) /\ SubSeq(s, 1, Len(p)) = p

\* s.indexOf(p), 1-based; 0 when p does not occur
IndexOf(s, p) ==
  LET First(hits) == IF hits = {} THEN 0 ELSE CHOOSE k \in hits : \A j \in hits : k <= j
  IN First({k \in 1..(Len(s) - Len(p) + 1) : SubSeq(s, k, k + Len(p) - 1) = p})

\* s.includes(p)
Includes(s, p) == IndexOf(s, p) # 0

\* s.split(d), for a non-empty delimiter d
RECURSIVE Split(_, _)
Split(s, d) ==
  LET At(k) ==
        IF k = 0 THEN <<s>>
        ELSE <<SubSeq(s, 1, k - 1)>> \o Split(SubSeq(s, k + Len(d), Len(s)), d)
  IN At(IndexOf(s, d))

\* parts.join(d)
RECURSIVE Join(_, _)
Join(parts, d) ==
  IF Len(parts) = 0 THEN ""
  ELSE IF Len(parts) = 1 THEN parts[1]
  ELSE parts[1] \o d \o Join(Tail(parts), d)

IsSpace(c) == c = " "

\* s.trim()
Trim(s) ==
  LET Kept(ks) ==
        IF ks = {} THEN ""
        ELSE SubSeq(s, CHOOSE k \in ks : \A j \in ks : k <= j,
                       CHOOSE k \in ks : \A j \in ks : k >= j)
  IN Kept({k \in 1..Len(s) : ~IsSpace(CharAt(s, k))})

\* the character at position k, "" outside the string
CharOr(s, k) == IF k >= 1 /\ k <= Len(s) THEN CharAt(s, k) ELSE ""

IsDigit(c) == c \in {"0", "1", "2", "3", "4", "5", "6", "7", "8", "9"}

\* length of the run of digits that starts at position k
DigitRun(t, k) ==
  CHOOSE n \in 0..(Len(t) + 1) :
    /\ ~IsDigit(CharOr(t, k + n))
    /\ \A m \in 0..(n - 1) : IsDigit(CharOr(t, k + m))

\* the position of the first character at or after k that is not a space
SkipSpaces(t, k) ==
  k + (CHOOSE n \in 0..(Len(t) + 1) :
         /\ ~IsSpace(CharOr(t, k + n))
         /\ \A m \in 0..(n - 1) : IsSpace(CharOr(t, k + m)))

\* the printable ASCII characters in code order, codes 32..126 (the double
\* quote, the backslash and the backquote, which no identifier here contains,
\* are left blank)
Ascii ==
  " ! #$%&'()*+,-./0123456789:;<=>?@ABCDEFGHIJKLMNOPQRSTUVWXYZ[ ]^_ abcdefghijklmnopqrstuvwxyz{|}~"

\* s.charCodeAt(0) of a one-character string
CharCode(c) == 31 + IndexOf(Ascii, c)

\* String(v) / template interpolation of an id (a number or a string)
Str(v) == IF v \in Int THEN ToString(v) ELSE v

\* ------------------------------------------------------------------------
\* generateSafeMergedId
\* ------------------------------------------------------------------------

\* hash = ((hash << 5) - hash) + code; hash |= 0
\* One step of the 32-bit signed wrap-around hash. The 32-bit word is kept
\* as two 16-bit halves so that no intermediate value leaves the range of
\* 32-bit arithmetic; the result is the signed value of the word.
HashStep(hash, code) ==
  LET u  == IF hash < 0 THEN hash + 2147483647 + 1 ELSE hash   \* low 31 bits
      hi == (u \div 65536) + (IF hash < 0 THEN 32768 ELSE 0)
      lo == u % 65536
      l2 == 31 * lo + code
      h2 == (31 * hi + (l2 \div 65536)) % 65536
  IN IF h2 >= 32768 THEN (h2 - 65536) * 65536 + (l2 % 65536)
     ELSE h2 * 65536 + (l2 % 65536)

\* hash |= 0 leaves a 32-bit signed integer
IsInt32(hash) == hash >= -2147483647 - 1 /\ hash <= 2147483647

\* the for loop over str; hash is a 32-bit integer at every turn
RECURSIVE HashFrom(_, _)
HashFrom(hash, str) ==
  IF Len(str) = 0 \/ ~IsInt32(hash) THEN hash
  ELSE HashFrom(HashStep(hash, CharCode(CharAt(str, 1))), SubSeq(str, 2, Len(str)))

\* a 32-bit absolute value that wraps: abs(-2^31) stays -2^31, and the
\* remainder takes the sign of the dividend
AbsModWrapping(hash) ==
  IF hash >= 0 THEN hash % IdBase
  ELSE IF hash = -2147483647 - 1 THEN -147483648
  ELSE (-hash) % IdBase

\* Math.abs(hash) % 1000000000: the absolute value of the minimum 32-bit
\* value is 2^31, a number JavaScript represents exactly
AbsMod(hash) ==
  IF hash >= 0 THEN hash % IdBase ELSE (-(hash + IdBase)) % IdBase

MergedIdString(id1, id2, salt) == Str(id1) \o "_" \o Str(id2) \o "_" \o salt

generateSafeMergedId(id1, id2, salt) ==
  AbsMod(HashFrom(0, MergedIdString(id1, id2, salt))) + IdBase

\* ------------------------------------------------------------------------
\* sanitizeUrl
\* ------------------------------------------------------------------------

\* clean.match(/^([^:]+):(.+)$/): the position of the first ':' when it is
\* neither the first nor the last character, else 0
SourceIdColon(clean) ==
  LET k == IndexOf(clean, ":")
  IN IF k > 1 /\ k < Len(clean) THEN k ELSE 0

\* toLowerCase of one character
LowerChar(c) ==
  LET Lower(k) == IF k = 0 THEN c ELSE CharAt("abcdefghijklmnopqrstuvwxyz", k)
  IN Lower(IndexOf("ABCDEFGHIJKLMNOPQRSTUVWXYZ", c))

\* toLowerCase of the characters lo..hi of s
RECURSIVE LowerRange(_, _, _)
LowerRange(s, lo, hi) ==
  IF lo > hi THEN ""
  ELSE IF lo = hi THEN LowerChar(CharAt(s, lo))
  ELSE LowerRange(s, lo, (lo + hi) \div 2)
       \o LowerRange(s, (lo + hi) \div 2 + 1, hi)

\* s.toLowerCase()
ToLower(s) == IF s = "" THEN "" ELSE LowerRange(s, 1, Len(s))

\* /^https?:\/\//i.test(body)
IsHttpUrl(body) ==
  LET Test(low) == StartsWith(low, "http://") \/ StartsWith(low, "https://")
  IN Test(ToLower(body))

sanitizeUrl(urlStr) ==
  IF urlStr = "" THEN ""
  ELSE
    LET Body(body) ==
          IF IsHttpUrl(body) THEN body
          ELSE IF StartsWith(body, "//") THEN "https:" \o body
          ELSE body
        Matched(clean, k, prefix) ==
          IF k = 0 THEN clean
          ELSE IF prefix = "http" \/ prefix = "https" THEN clean
          ELSE Body(SubSeq(clean, k + 1, Len(clean)))
        Clean(clean, k) ==
          IF StartsWith(clean, "//") THEN "https:" \o clean
          ELSE Matched(clean, k, ToLower(SubSeq(clean, 1, k - 1)))
        Trimmed(clean) == Clean(clean, SourceIdColon(clean))
    IN Trimmed(Trim(Split(urlStr, MERGE_DELIMITER)[1]))

\* ------------------------------------------------------------------------
\* Exact fractions for the scores (JavaScript numbers in the source)
\* ------------------------------------------------------------------------

RECURSIVE Gcd(_, _)
Gcd(a, b) == IF b = 0 THEN a ELSE Gcd(b, a % b)

Abs(a) == IF a < 0 THEN -a ELSE a

\* the fraction n/d in lowest terms, d > 0
Frac(n, d) ==
  LET g == Gcd(Abs(n), d) IN <<n \div g, d \div g>>

FInt(n) == <<n, 1>>

FAdd(a, b) == Frac(a[1] * b[2] + b[1] * a[2], a[2] * b[2])

FSub(a, b) == Frac(a[1] * b[2] - b[1] * a[2], a[2] * b[2])

FDivInt(a, k) == Frac(a[1], a[2] * k)

FLess(a, b) == a[1] * b[2] < b[1] * a[2]

FMax(a, b) == IF FLess(a, b) THEN b ELSE a

\* ------------------------------------------------------------------------
\* cleanText
\* ------------------------------------------------------------------------

\* the ASCII members of the class [!?,.~:\-] that cleanText turns into a space
IsCleanPunct(c) == c \in {"!", "?", ",", ".", "~", ":", "-"}

\* the replacement of the characters lo..hi of s
RECURSIVE PunctRange(_, _, _)
PunctRange(s, lo, hi) ==
  IF lo > hi THEN ""
  ELSE IF lo = hi THEN (IF IsCleanPunct(CharAt(s, lo)) THEN " " ELSE CharAt(s, lo))
  ELSE PunctRange(s, lo, (lo + hi) \div 2)
       \o PunctRange(s, (lo + hi) \div 2 + 1, hi)

\* clean.replace(/[!?,.~:\-]/g, ' ')
PunctToSpace(s) == IF s = "" THEN "" ELSE PunctRange(s, 1, Len(s))

\* what is left of the characters lo..hi of s: of a run of spaces, the first
RECURSIVE CollapseRange(_, _, _)
CollapseRange(s, lo, hi) ==
  IF lo > hi THEN ""
  ELSE IF lo = hi
       THEN (IF IsSpace(CharAt(s, lo)) /\ lo > 1 /\ IsSpace(CharAt(s, lo - 1))
             THEN "" ELSE CharAt(s, lo))
  ELSE CollapseRange(s, lo, (lo + hi) \div 2)
       \o CollapseRange(s, (lo + hi) \div 2 + 1, hi)

\* clean.replace(/\s+/g, ' ')
CollapseSpaces(s) == IF s = "" THEN "" ELSE CollapseRange(s, 1, Len(s))

\* clean.replace(/{.*?}/g, ''): the bracketed source tags. The lenticular
\* brackets U+3010 and U+3011 of the source are written "{" and "}".
RECURSIVE RemoveTags(_)
RemoveTags(s) ==
  LET \* o is the position of "{" and c that of "}" counted from o
      Cut(o, c) ==
        IF o = 0 \/ c = 0 THEN s
        ELSE SubSeq(s, 1, o - 1) \o RemoveTags(SubSeq(s, o + c + 1, Len(s)))
  IN TheOne({Cut(o, IndexOf(SubSeq(s, o + 1, Len(s)), "}")) : o \in {IndexOf(s, "{")}})

\* The CJK words that the rules below write, one ASCII symbol per character:
\* di (ordinal prefix) U+7B2C is "#", ji (season) U+5B63 is "@", bufen (part)
\* U+90E8 U+5206 is "*;", zuizhongji (final season) U+6700 U+7EC8 U+5B63 is
\* "_|@".
ZhDi == "#"

ZhJi == "@"

ZhBuFen == "*;"

ZhFinalSeason == "_|@"

\* clean.replace(/(?:The\s+)?Final\s+Season/gi, zuizhongji) from position
\* from on. A hit is <<k, e>>: the match starts at k and ends before e.
RECURSIVE FinalSeasonRule(_, _)
FinalSeasonRule(s, from) ==
  LET At(low, k, w) == k + Len(w) - 1 <= Len(s) /\ SubSeq(low, k, k + Len(w) - 1) = w
      \* where "final" may stand in a match that starts at k
      Finals(low, k) ==
        {k} \cup (IF At(low, k, "the") /\ IsSpace(CharOr(s, k + 3))
                  THEN {SkipSpaces(s, k + 3)} ELSE {})
      Hits(low) ==
        UNION {{<<k, SkipSpaces(s, f + 5) + 6>> :
                  f \in {f \in Finals(low, k) :
                           /\ At(low, f, "final") /\ IsSpace(CharOr(s, f + 5))
                           /\ At(low, SkipSpaces(s, f + 5), "season")}} :
               k \in from..Len(s)}
      Rewrite(hits) ==
        IF hits = {} THEN SubSeq(s, from, Len(s))
        ELSE TheOne({SubSeq(s, from, hit[1] - 1) \o ZhFinalSeason
                       \o FinalSeasonRule(s, hit[2]) :
                     hit \in {CHOOSE hit \in hits : \A other \in hits : hit[1] <= other[1]}})
  IN IF from > Len(s) THEN "" ELSE Rewrite(Hits(ToLower(s)))

\* clean.replace(/(?:long|short)[skip]*(\d+)/gi, di $1 suffix) from position
\* from on: the season rule /(?:Season|S)\s*(\d+)/gi of line 29 and the
\* part rule /(?:Part|P)[\s.]*(\d+)/gi of line 34. A hit is <<k, d, e>>: the
\* match starts at k, its digits at d, and it ends before e.
RECURSIVE NumberedRule(_, _, _, _, _, _)
NumberedRule(s, from, long, short, skip, suffix) ==
  LET \* the position after the word that stands at k
      WordEnds(low, k) ==
        IF k + Len(long) - 1 <= Len(s) /\ SubSeq(low, k, k + Len(long) - 1) = long
        THEN {k + Len(long)}
        ELSE IF CharAt(low, k) = short THEN {k + 1} ELSE {}
      \* the first position from w on whose character is not skipped
      Skipped(w) ==
        w + (CHOOSE n \in 0..(Len(s) + 1) :
               /\ CharOr(s, w + n) \notin skip
               /\ \A m \in 0..(n - 1) : CharOr(s, w + m) \in skip)
      Hits(low) ==
        UNION {{<<k, d, d + DigitRun(s, d)>> :
                  d \in {d \in {Skipped(w) : w \in WordEnds(low, k)} :
                           IsDigit(CharOr(s, d))}} :
               k \in from..Len(s)}
      Rewrite(hits) ==
        IF hits = {} THEN SubSeq(s, from, Len(s))
        ELSE TheOne({SubSeq(s, from, hit[1] - 1) \o ZhDi
                       \o SubSeq(s, hit[2], hit[3] - 1) \o suffix
                       \o NumberedRule(s, hit[3], long, short, skip, suffix) :
                     hit \in {CHOOSE hit \in hits : \A other \in hits : hit[1] <= other[1]}})
  IN IF from > Len(s) THEN "" ELSE Rewrite(Hits(ToLower(s)))

\* clean.replace(/(\s|^)(IV|III|II|I)(\s|$)/g, p1 di n ji p2) from position
\* from on; the start of the string is position 1 only. A hit is <<j, n, e>>:
\* the numeral n stands at j, after a space or at the start of the string,
\* and ends before e, where a space or the end of the string follows.
RECURSIVE RomanRule(_, _)
RomanRule(s, from) ==
  LET Numeral(n) == <<"I", "II", "III", "IV">>[n]
      Hits ==
        UNION {{<<j, n, j + Len(Numeral(n))>> :
                  n \in {n \in 1..4 :
                           /\ j + Len(Numeral(n)) - 1 <= Len(s)
                           /\ SubSeq(s, j, j + Len(Numeral(n)) - 1) = Numeral(n)
                           /\ CharOr(s, j + Len(Numeral(n))) \in {"", " "}}} :
               j \in {k + 1 : k \in {k \in from..Len(s) : IsSpace(CharAt(s, k))}}
                       \cup (IF from = 1 THEN {1} ELSE {})}
      Rewrite(hits) ==
        IF hits = {} THEN SubSeq(s, from, Len(s))
        ELSE TheOne({SubSeq(s, from, hit[1] - 1) \o ZhDi \o ToString(hit[2]) \o ZhJi
                       \o CharOr(s, hit[3]) \o RomanRule(s, hit[3] + 1) :
                     hit \in {CHOOSE hit \in hits : \A other \in hits : hit[1] <= other[1]}})
  IN IF from > Len(s) THEN "" ELSE Rewrite(Hits)

\* Lines 23-50 for text without CJK characters: simplized (line 23), the
\* Chinese-numeral rule (line 32), the dubbing rules (lines 38-39) and the
\* region rule (line 46) rewrite CJK words only.
cleanText(text) ==
  IF text = "" THEN ""
  ELSE Trim(ToLower(CollapseSpaces(PunctToSpace(RemoveTags(
         RomanRule(
           NumberedRule(
             NumberedRule(FinalSeasonRule(text, 1), 1, "season", "s", {" "}, ZhJi),
             1, "part", "p", {" ", "."}, ZhBuFen),
           1))))))

\* text.replace(/(\(|（).*?(\)|）)/g, '').trim(), for the ASCII parentheses
RECURSIVE StripParens(_)
StripParens(text) ==
  LET o == IndexOf(text, "(")
      rest == SubSeq(text, o + 1, Len(text))
      c == IndexOf(rest, ")")
  IN IF o = 0 \/ c = 0 THEN text
     ELSE SubSeq(text, 1, o - 1) \o StripParens(SubSeq(rest, c + 1, Len(rest)))

removeParentheses(text) == IF text = "" THEN "" ELSE Trim(StripParens(text))

\* ------------------------------------------------------------------------
\* editDistance, calculateDiceSimilarity, calculateSimilarity
\* ------------------------------------------------------------------------

\* a distance that is the length of the first string
LengthOfFirst(s1, s2) == Len(s1)

\* one row of the Levenshtein matrix: row[j + 1] is matrix[i][j]
RECURSIVE EditRow(_, _, _, _)
EditRow(prev, c, s2, row) ==
  LET j == Len(row)
  IN IF j > Len(s2) THEN row
     ELSE LET cost == IF c = CharAt(s2, j) THEN 0 ELSE 1
              v == Min2(Min2(prev[j + 1] + 1, row[j] + 1), prev[j] + cost)
          IN EditRow(prev, c, s2, Append(row, v))

\* the rows after row prev; prev[1] is matrix[i - 1][0], which is i - 1
RECURSIVE EditRows(_, _, _)
EditRows(s1, s2, prev) ==
  LET i == prev[1] + 1
  IN IF i > Len(s1) THEN prev
     ELSE EditRows(s1, s2, EditRow(prev, CharAt(s1, i), s2, <<i>>))

editDistance(s1, s2) ==
  EditRows(s1, s2, <<0>> \o [j \in 1..Len(s2) |-> j])[Len(s2) + 1]

\* new Set(s.replace(/\s/g, ''))
CharSet(s) == {CharAt(s, k) : k \in 1..Len(s)} \ {" "}

calculateDiceSimilarity(s1, s2) ==
  IF s1 = "" \/ s2 = "" THEN FInt(0)
  ELSE LET set1 == CharSet(s1)
           set2 == CharSet(s2)
       IN IF set1 = {} /\ set2 = {} THEN FInt(1)
          ELSE IF set1 = {} \/ set2 = {} THEN FInt(0)
          ELSE Frac(2 * Cardinality(set1 \cap set2),
                    Cardinality(set1) + Cardinality(set2))

calculateSimilarity(str1, str2) ==
  IF str1 = "" \/ str2 = "" THEN FInt(0)
  ELSE
    LET Compare(s1, s2, maxLength) ==
          IF s1 = s2 THEN FInt(1)
          ELSE IF Includes(s1, s2) \/ Includes(s2, s1)
               \* 0.8 + lenRatio * 0.2
               THEN Frac(4 * maxLength + Min2(Len(s1), Len(s2)), 5 * maxLength)
          ELSE FMax(IF maxLength = 0 THEN FInt(1)
                    ELSE Frac(maxLength - editDistance(s1, s2), maxLength),
                    calculateDiceSimilarity(s1, s2))
        Cleaned(s1, s2) == Compare(s1, s2, Max2(Len(s1), Len(s2)))
    IN TheOne({Cleaned(s1, s2) : s1 \in {cleanText(str1)}, s2 \in {cleanText(str2)}})

\* ------------------------------------------------------------------------
\* extractEpisodeInfo, getSpecialEpisodeType, filterEpisodes
\* ------------------------------------------------------------------------

\* parseFloat of a string of digits
RECURSIVE ParseDigits(_)
ParseDigits(d) ==
  IF Len(d) = 0 THEN 0
  ELSE 10 * ParseDigits(SubSeq(d, 1, Len(d) - 1))
       + (IndexOf("0123456789", CharAt(d, Len(d))) - 1)

\* the alternatives of the strong prefix (ep|o|s|part|di)
StrongPrefixes == {"ep", "o", "s", "part", ZhDi}

\* position of the number of /(?:ep|o|s|part)\s*(\d+(\.\d+)?)/ matched at k,
\* 0 when the pattern does not match at k
StrongNumberAt(t, k) ==
  LET ws == {w \in StrongPrefixes :
               /\ k + Len(w) - 1 <= Len(t)
               /\ SubSeq(t, k, k + Len(w) - 1) = w
               /\ IsDigit(CharOr(t, SkipSpaces(t, k + Len(w))))}
  IN IF ws = {} THEN 0
     ELSE SkipSpaces(t, k + Len(CHOOSE w \in ws : TRUE))

\* start of the number of /(?:^|\s)(\d+(\.\d+)?)(?:\s|$)/ matched at k, else 0
WeakNumberAt(t, k) ==
  IF /\ (k = 1 \/ IsSpace(CharOr(t, k - 1)))
     /\ DigitRun(t, k) > 0
     /\ CharOr(t, k + DigitRun(t, k)) \in {"", " "}
  THEN k ELSE 0

\* the number of the leftmost match of the strong pattern, 0 when none
FirstStrongNumber(t) ==
  LET ks == {k \in 1..Len(t) : StrongNumberAt(t, k) # 0}
  IN IF ks = {} THEN 0
     ELSE StrongNumberAt(t, CHOOSE k \in ks : \A j \in ks : k <= j)

\* the number of the leftmost match of the weak pattern, 0 when none
FirstWeakNumber(t) ==
  LET ks == {k \in 1..Len(t) : WeakNumberAt(t, k) # 0}
  IN IF ks = {} THEN 0
     ELSE WeakNumberAt(t, CHOOSE k \in ks : \A j \in ks : k <= j)

\* num is <<>> for null and <<n>> for the number n. cleanText has replaced
\* every '.', so the optional decimal part of the patterns never matches.
extractEpisodeInfo(title) ==
  LET NumberAt(t, at) ==
        IF at = 0 THEN <<>>
        ELSE <<ParseDigits(SubSeq(t, at, at + DigitRun(t, at) - 1))>>
      \* the strong pattern first, the weak pattern when it finds nothing
      Number(t, strong) == NumberAt(t, IF strong # 0 THEN strong ELSE FirstWeakNumber(t))
      Info(t) ==
        [isMovie |-> Includes(t, "movie") \/ Includes(t, "film"),
         isSpecial |-> \E w \in {"s", "o", "sp", "special"} :
                          StartsWith(t, w) /\ IsDigit(CharOr(t, Len(w) + 1)),
         num |-> Number(t, FirstStrongNumber(t))]
  IN TheOne({Info(t) : t \in {cleanText(title)}})

\* "" stands for null. The last test looks for 'Bloopers' in the lower-cased
\* title, as the source does.
getSpecialEpisodeType(title) ==
  IF title = "" THEN ""
  ELSE LET t == ToLower(title)
       IN IF Includes(t, "opening") THEN "opening"
          ELSE IF Includes(t, "ending") THEN "ending"
          ELSE IF Includes(t, "interview") THEN "interview"
          ELSE IF Includes(t, "Bloopers") THEN "Bloopers"
          ELSE ""

\* new RegExp(source, flags) for the patterns of the model: an alternation of
\* literal keywords, in which a parenthesis is one without its partner, so
\* that the constructor throws a SyntaxError. <<regexp>>, or <<>> when it
\* throws.
NewRegExp(source, flags) ==
  IF Includes(source, "(") \/ Includes(source, ")") THEN <<>>
  ELSE LET alternatives == Split(source, "|")
       IN <<[keywords |-> {alternatives[k] : k \in 1..Len(alternatives)},
             ignoreCase |-> Includes(flags, "i")]>>

\* filterRegex.test(title) for a regexp of NewRegExp
FilterMatches(filterRegex, title) ==
  \E kw \in filterRegex.keywords :
     IF filterRegex.ignoreCase THEN Includes(ToLower(title), ToLower(kw))
     ELSE Includes(title, kw)

\* filterRegex is <<regexp>>, or <<>> for null (no filter)
RECURSIVE FilterFrom(_, _, _)
FilterFrom(links, filterRegex, index) ==
  IF index > Len(links) THEN <<>>
  ELSE (IF filterRegex # <<>> /\ FilterMatches(filterRegex[1], links[index].title)
        THEN <<>>
        ELSE <<[link |-> links[index], originalIndex |-> index]>>)
       \o FilterFrom(links, filterRegex, index + 1)

filterEpisodes(links, filterRegex) == FilterFrom(links, filterRegex, 1)

\* ------------------------------------------------------------------------
\* findBestAlignmentOffset
\* ------------------------------------------------------------------------

\* minimum number over the non-special numbered links, <<>> when none
MinNormal(links) ==
  LET Least(nums) ==
        IF nums = {} THEN <<>> ELSE <<CHOOSE n \in nums : \A m \in nums : n <= m>>
      Normal(infos) ==
        Least({info.num[1] : info \in {i \in infos : i.num # <<>> /\ ~i.isSpecial}})
  IN Normal({extractEpisodeInfo(links[k].link.title) : k \in 1..Len(links)})

\* a null number counts as 0 in a subtraction
NumOrZero(num) == IF num = <<>> THEN 0 ELSE num[1]

\* the score of one pair (primary title titleA, secondary title titleB)
PairScore(titleA, titleB, seasonShift) ==
  LET Fixed(infoA, infoB, specialTypeA, specialTypeB, bothNum) ==
          (IF infoA.isMovie # infoB.isMovie THEN -5 ELSE 0)
        + (IF specialTypeA # "" \/ specialTypeB # ""
           THEN (IF specialTypeA # specialTypeB THEN -10 ELSE 3) ELSE 0)
        + (IF infoA.isSpecial = infoB.isSpecial THEN 3 ELSE 0)
        + (IF /\ seasonShift # <<>> /\ ~infoA.isSpecial /\ ~infoB.isSpecial
              /\ NumOrZero(infoA.num) - NumOrZero(infoB.num) = seasonShift[1]
           THEN 5 ELSE 0)
        + (IF bothNum /\ infoA.num = infoB.num THEN 2 ELSE 0)
      Scored(infoA, infoB, bothNum, sim) ==
        [diff |-> IF bothNum THEN <<infoB.num[1] - infoA.num[1]>> ELSE <<>>,
         sim |-> sim,
         score |-> FAdd(FInt(Fixed(infoA, infoB, getSpecialEpisodeType(titleA),
                                   getSpecialEpisodeType(titleB), bothNum)),
                        sim)]
      Paired(infoA, infoB) ==
        Scored(infoA, infoB, infoA.num # <<>> /\ infoB.num # <<>>,
               calculateSimilarity(titleA, titleB))
  IN TheOne({Paired(infoA, infoB) : infoA \in {extractEpisodeInfo(titleA)},
                                     infoB \in {extractEpisodeInfo(titleB)}})

\* the inner loop over the secondary links for one offset: the pairs in
\* range. The indices i with 1 <= i + offset <= Len(primaryLinks) are the
\* consecutive ones from first to last.
OffsetPairs(primaryLinks, secondaryLinks, offset, seasonShift) ==
  LET first == Max2(1, 1 - offset)
      last == Min2(Len(secondaryLinks), Len(primaryLinks) - offset)
      Pair(i) == PairScore(primaryLinks[i + offset].link.title,
                           secondaryLinks[i].link.title, seasonShift)
  IN <<>> \o [j \in 1..(last - first + 1) |-> Pair(first + j - 1)]

\* the sum of field f over pairs[lo..hi]
RECURSIVE SumRange(_, _, _, _)
SumRange(pairs, f, lo, hi) ==
  IF lo > hi THEN FInt(0)
  ELSE IF lo = hi THEN pairs[lo][f]
  ELSE FAdd(SumRange(pairs, f, lo, (lo + hi) \div 2),
            SumRange(pairs, f, (lo + hi) \div 2 + 1, hi))

SumField(pairs, f) == SumRange(pairs, f, 1, Len(pairs))

\* finalScore of one offset, <<>> when no pair is in range
OffsetScore(primaryLinks, secondaryLinks, offset, seasonShift) ==
  LET Freq(pairs, d) == Cardinality({k \in 1..Len(pairs) : pairs[k].diff = <<d>>})
      MaxFrequency(pairs, diffs) ==
        IF diffs = {} THEN 0
        ELSE Freq(pairs, CHOOSE d \in diffs :
                           \A e \in diffs : Freq(pairs, e) <= Freq(pairs, d))
      \* Math.min(matchCount * 0.15, 1.5)
      CoverageBonus(matchCount) ==
        IF matchCount >= 10 THEN Frac(3, 2) ELSE Frac(3 * matchCount, 20)
      Final(pairs, matchCount, maxFrequency, avgRawTextScore) ==
        FAdd(FAdd(FDivInt(SumField(pairs, "score"), matchCount),
                  CoverageBonus(matchCount)),
             \* consistencyRatio > 0.6 && avgRawTextScore > 0.33
             FInt((IF /\ 5 * maxFrequency > 3 * matchCount
                      /\ FLess(Frac(33, 100), avgRawTextScore)
                   THEN 2 ELSE 0)
                  + 2 * Freq(pairs, 0)))
      Scored(pairs, matchCount) ==
        IF matchCount = 0 THEN <<>>
        ELSE <<Final(pairs, matchCount,
                     MaxFrequency(pairs,
                       {pairs[k].diff[1] :
                          k \in {j \in 1..matchCount : pairs[j].diff # <<>>}}),
                     FDivInt(SumField(pairs, "sim"), matchCount))>>
      Counted(pairs) == Scored(pairs, Len(pairs))
  IN Counted(OffsetPairs(primaryLinks, secondaryLinks, offset, seasonShift))

\* the sliding range, Math.min(Math.max(lenA, lenB), 15)
MaxShiftCap == 15

\* lines 851-857: the first offset, in ascending order, that no other beats
BestOffset(scored) ==
  (CHOOSE b \in scored :
     \A q \in scored :
        /\ ~FLess(b.score, q.score)
        /\ (q.offset < b.offset => FLess(q.score, b.score)))

findBestAlignmentOffset(primaryLinks, secondaryLinks) ==
  IF Len(primaryLinks) = 0 \/ Len(secondaryLinks) = 0 THEN 0
  ELSE
    LET SeasonShift(minNormalA, minNormalB) ==
          IF minNormalA # <<>> /\ minNormalB # <<>>
          THEN <<minNormalA[1] - minNormalB[1]>> ELSE <<>>
        Scores(seasonShift, maxShift) ==
          {[offset |-> offset,
            found |-> OffsetScore(primaryLinks, secondaryLinks, offset, seasonShift)] :
             offset \in (-maxShift)..maxShift}
        Scored(scores) ==
          {[offset |-> e.offset, score |-> e.found[1]] :
             e \in {f \in scores : f.found # <<>>}}
        \* bestOffset when maxScore > 0.3, else 0
        Accept(best) == IF FLess(Frac(3, 10), best.score) THEN best.offset ELSE 0
        Best(scored) == IF scored = {} THEN 0 ELSE Accept(BestOffset(scored))
    IN Best(Scored(Scores(SeasonShift(MinNormal(primaryLinks),
                                      MinNormal(secondaryLinks)),
                          Min2(Max2(Len(primaryLinks), Len(secondaryLinks)),
                               MaxShiftCap))))

\* ------------------------------------------------------------------------
\* isMergeRatioValid
\* ------------------------------------------------------------------------

\* totals above which the coverage ratio is checked
RatioMinTotal == 5

\* a gate that lets every merge pass
RatioAlwaysValid(mergedCount, totalA, totalB, sourceA, sourceB) == TRUE

isMergeRatioValid(mergedCount, totalA, totalB, sourceA, sourceB) ==
  LET maxTotal == Max2(totalA, totalB)
  IN IF sourceA = "animeko" \/ sourceB = "animeko" THEN TRUE
     ELSE IF maxTotal = 0 THEN FALSE
     \* maxTotal > 5 && mergedCount / maxTotal < 0.18
     ELSE ~(maxTotal > RatioMinTotal /\ 100 * mergedCount < 18 * maxTotal)

\* ------------------------------------------------------------------------
\* Conflict detection
\*
\* The source tests titles for CJK words. Module text is ASCII, so each CJK
\* character is written as one ASCII symbol that occurs in no title
\* otherwise: dianying (movie) U+7535 U+5F71 is "%^", dianshiju (TV series)
\* U+7535 U+89C6 U+5267 is "%+=", juchangban (theatrical) U+5267 U+573A
\* U+7248 is "=<>".
\* ------------------------------------------------------------------------

ZhMovie == "%^"

ZhTv == "%+="

ZhTheatrical == "=<>"

\* start of the first "(dddd)" of s, 0 when there is none
YearTagAt(s) ==
  LET ks == {k \in 1..Len(s) : /\ CharAt(s, k) = "("
                               /\ DigitRun(s, k + 1) >= 4
                               /\ CharOr(s, k + 5) = ")"
                               /\ DigitRun(s, k + 1) = 4}
  IN IF ks = {} THEN 0 ELSE CHOOSE k \in ks : \A j \in ks : k <= j

\* s.replace(/\(\d{4}\).*$/, '')
RemoveYearTail(s) ==
  LET CutAt(k) == IF k = 0 THEN s ELSE SubSeq(s, 1, k - 1)
  IN CutAt(YearTagAt(s))

\* length of the run of spaces that ends just before position k
SpacesBefore(s, k) ==
  LET stops == {n \in 0..(Len(s) + 1) : ~IsSpace(CharOr(s, k - 1 - n))}
  IN CHOOSE n \in stops : \A m \in stops : n <= m

\* s.replace(/\s*from\s+.*$/i, '')
RemoveFromSuffix(s) ==
  LET low == ToLower(s)
      ks == {k \in 1..Len(s) : /\ k + 4 <= Len(s)
                               /\ SubSeq(low, k, k + 4) = "from "}
      first == CHOOSE k \in ks : \A j \in ks : k <= j
  IN IF ks = {} THEN s ELSE SubSeq(s, 1, first - 1 - SpacesBefore(s, first))

\* the lightClean of checkTheatricalExemption
LightCleanKeepCase(str) ==
  IF str = "" THEN "" ELSE Trim(RemoveFromSuffix(RemoveTags(RemoveYearTail(str))))

\* /.+[\s].+/.test(t)
HasSpaceStructure(t) == \E k \in 2..(Len(t) - 1) : IsSpace(CharAt(t, k))

checkTheatricalExemption(titleA, titleB, typeDescA, typeDescB) ==
  IF ~(Includes(typeDescA, ZhTheatrical) \/ Includes(typeDescB, ZhTheatrical))
  THEN FALSE
  ELSE /\ HasSpaceStructure(LightCleanKeepCase(titleA))
       /\ HasSpaceStructure(LightCleanKeepCase(titleB))

\* a media type read from the title alone
TitleMediaType(title, typeDesc) ==
  IF Includes(title, ZhMovie) /\ ~Includes(title, ZhTv) THEN "MOVIE"
  ELSE IF Includes(title, ZhTv) /\ ~Includes(title, ZhMovie) THEN "TV"
  ELSE ""

\* "" stands for null
getStrictMediaType(title, typeDesc) ==
  LET fullText == ToLower(title \o " " \o typeDesc)
      hasMovie == Includes(fullText, ZhMovie)
      hasTV == Includes(fullText, ZhTv)
  IN IF hasMovie /\ ~hasTV THEN "MOVIE"
     ELSE IF hasTV /\ ~hasMovie THEN "TV"
     ELSE ""

\* episode-count gap above which opposite media types conflict
MediaCountGap == 5

checkMediaTypeMismatch(titleA, titleB, typeDescA, typeDescB, countA, countB) ==
  LET Mismatch(mediaA, mediaB) ==
        IF mediaA = "" \/ mediaB = "" \/ mediaA = mediaB THEN FALSE
        ELSE IF checkTheatricalExemption(titleA, titleB, typeDescA, typeDescB)
             THEN FALSE
        ELSE IF countA > 0 /\ countB > 0 THEN Abs(countA - countB) > MediaCountGap
        ELSE TRUE
  IN Mismatch(getStrictMediaType(titleA, typeDescA),
              getStrictMediaType(titleB, typeDescB))

\* the separator class /^[\s:\-(\[{]/ of checkTitleSubtitleConflict
IsSeparator(c) == c \in {" ", ":", "-", "(", "[", "{"}

\* The parenthesised suffix annotations removed first by the source are CJK
\* words, absent from the titles here.
checkTitleSubtitleConflict(titleA, titleB) ==
  IF titleA = "" \/ titleB = "" THEN FALSE
  ELSE
    LET Subtitle(after) ==
          Trim(IF IsSeparator(CharOr(after, 1))
               THEN SubSeq(after, 2, Len(after)) ELSE after)
        Tail2(short, long, after) ==
          /\ StartsWith(long, short)
          /\ Len(long) # Len(short)
          /\ IsSeparator(CharOr(after, 1))
          /\ Len(Subtitle(after)) > 2
        Ordered(short, long) ==
          Tail2(short, long, SubSeq(long, Len(short) + 1, Len(long)))
        Conflict(t1, t2) ==
          /\ t1 # t2
          /\ IF Len(t1) < Len(t2) THEN Ordered(t1, t2) ELSE Ordered(t2, t1)
    IN TheOne({Conflict(t1, t2) : t1 \in {ToLower(LightCleanKeepCase(titleA))},
                                     t2 \in {ToLower(LightCleanKeepCase(titleB))}})

\* the number that follows the first occurrence of word w (after optional
\* spaces when spaced), <<>> when w is followed by no number anywhere
MarkerNumber(t, w, spaced) ==
  LET At(k) == IF spaced THEN SkipSpaces(t, k + Len(w)) ELSE k + Len(w)
      NumberAt(at) == <<ParseDigits(SubSeq(t, at, at + DigitRun(t, at) - 1))>>
      First(ks) ==
        IF ks = {} THEN <<>>
        ELSE NumberAt(At(CHOOSE k \in ks : \A j \in ks : k <= j))
  IN First({k \in 1..Len(t) : /\ k + Len(w) - 1 <= Len(t)
                              /\ SubSeq(t, k, k + Len(w) - 1) = w
                              /\ IsDigit(CharOr(t, At(k)))})

\* The markers of lines 297-328 in text whose CJK words are those written
\* above: N ji / N bu -> S<N>, season N / sN -> S<N>, part N -> P<N>,
\* ova|oad, movie|film, sp, a single trailing digit -> S<N>, and di final ji
\* -> S99. The words of SEQUEL and the Chinese numerals do not occur.
extractSeasonMarkers(title, typeDesc) ==
  LET Tag(prefix, num) == IF num = <<>> THEN {} ELSE {prefix \o ToString(num[1])}
      HasAny(text, words) == \E w \in words : Includes(text, w)
      \* /(?:di)?(\d+)[ji bu]/: the first run of digits that ji or bu follows
      Counted(t) ==
        LET NumberAt(at) == <<ParseDigits(SubSeq(t, at, at + DigitRun(t, at) - 1))>>
            First(ks) == IF ks = {} THEN <<>>
                         ELSE NumberAt(CHOOSE k \in ks : \A j \in ks : k <= j)
        IN First({k \in 1..Len(t) :
                    /\ IsDigit(CharAt(t, k)) /\ ~IsDigit(CharOr(t, k - 1))
                    /\ CharOr(t, k + DigitRun(t, k)) \in {ZhJi, CharAt(ZhBuFen, 1)}})
      Markers(t, type, last) ==
             Tag("S", Counted(t))
        \cup Tag("S", MarkerNumber(t, "season", TRUE))
        \cup Tag("S", MarkerNumber(t, "s", FALSE))
        \cup Tag("P", MarkerNumber(t, "part", TRUE))
        \cup (IF HasAny(t, {"ova", "oad"}) THEN {"OVA"} ELSE {})
        \cup (IF HasAny(t, {ZhTheatrical, "movie", "film", ZhMovie})
              THEN {"MOVIE"} ELSE {})
        \cup (IF Includes(t, "sp") THEN {"SP"} ELSE {})
        \cup (IF Len(t) >= 2 /\ IsDigit(last) /\ ~IsDigit(CharAt(t, Len(t) - 1))
              THEN {"S" \o last} ELSE {})
        \cup (IF HasAny(type, {ZhTheatrical, "movie", "film", ZhMovie})
              THEN {"MOVIE"} ELSE {})
        \cup (IF HasAny(type, {"ova", "oad"}) THEN {"OVA"} ELSE {})
        \cup (IF HasAny(type, {"sp", "special"}) THEN {"SP"} ELSE {})
        \cup (IF Includes(t, ZhDi \o "final" \o ZhJi) THEN {"S99"} ELSE {})
      Cleaned(t, type) == Markers(t, type, CharOr(t, Len(t)))
  IN TheOne({Cleaned(t, type) : t \in {cleanText(title)}, type \in {cleanText(typeDesc)}})

\* m.startsWith('S'): the season markers, and SP and SEQUEL with them
StartsWithS(m) == StartsWith(m, "S")

checkSeasonMismatch(titleA, titleB, typeA, typeB) ==
  LET Mismatch(markersA, markersB) ==
        IF markersA = {} /\ markersB = {} THEN FALSE
        ELSE IF markersA # {} /\ markersB # {}
             THEN \E m \in markersA :
                    /\ StartsWithS(m) /\ m \notin markersB
                    /\ \E b \in markersB : StartsWithS(b)
        ELSE IF Cardinality(markersA) # Cardinality(markersB)
             THEN ~checkTheatricalExemption(titleA, titleB, typeA, typeB)
        ELSE FALSE
  IN Mismatch(extractSeasonMarkers(titleA, typeA),
              extractSeasonMarkers(titleB, typeB))

hasSameSeasonMarker(titleA, titleB, typeA, typeB) ==
  LET seasonsA == {m \in extractSeasonMarkers(titleA, typeA) : StartsWithS(m)}
      seasonsB == {m \in extractSeasonMarkers(titleB, typeB) : StartsWithS(m)}
  IN seasonsA \cap seasonsB # {}

\* A date is the result of parseDate: [year, month], 0 standing for null.
\* The hard mismatch -1 is <<-1, 1>>.
checkDateMatch(dateA, dateB) ==
  IF dateA.year = 0 \/ dateB.year = 0 THEN FInt(0)
  ELSE IF Abs(dateA.year - dateB.year) > 1 THEN FInt(-1)
  ELSE IF dateA.year = dateB.year
       THEN IF dateA.month # 0 /\ dateB.month # 0
            THEN IF Abs(dateA.month - dateB.month) > 2 THEN FInt(0)
                 ELSE IF dateA.month = dateB.month THEN Frac(1, 5)
                 ELSE Frac(1, 10)
            ELSE Frac(1, 10)
  ELSE FInt(0)

\* ------------------------------------------------------------------------
\* findSecondaryMatch
\* ------------------------------------------------------------------------

\* title.replace(/\(\d{4}\).*$/, '').replace(/{(movie|TV)}/g, '').trim()
RECURSIVE RemoveWord(_, _)
RemoveWord(s, w) ==
  LET k == IndexOf(s, w)
  IN IF k = 0 THEN s
     ELSE SubSeq(s, 1, k - 1) \o RemoveWord(SubSeq(s, k + Len(w), Len(s)), w)

TitleForSim(rawTitle) ==
  Trim(RemoveWord(RemoveWord(RemoveYearTail(rawTitle), "{" \o ZhMovie \o "}"),
                  "{" \o ZhTv \o "}"))

\* anime.links ? anime.links.length : 0
LinkCountOf(anime) == IF anime.links = 0 THEN 0 ELSE Len(linkStore[anime.links])

\* anime.episodeCount || (anime.links ? anime.links.length : 0)
BestKnownCount(anime) ==
  IF anime.episodeCount # 0 THEN anime.episodeCount ELSE LinkCountOf(anime)

\* a score from the titles alone, with no conflict check
TitleScore(primaryAnime, secAnime, primaryCount, secCount) ==
  <<calculateSimilarity(TitleForSim(primaryAnime.animeTitle),
                        TitleForSim(secAnime.animeTitle))>>

\* the score of one candidate, <<>> when a conflict check skips it
CandidateScore(primaryAnime, secAnime, primaryCount, secCount) ==
  LET rawPrimaryTitle == primaryAnime.animeTitle
      rawSecTitle == secAnime.animeTitle
      \* score -= 0.15 on a structure conflict
      Penalised(score) ==
        IF checkTitleSubtitleConflict(rawPrimaryTitle, rawSecTitle)
        THEN FSub(score, Frac(3, 20)) ELSE score
      WithDate(penalised, dateScore) ==
        IF dateScore # FInt(-1) THEN FAdd(penalised, dateScore) ELSE penalised
      Score(primaryTitleForSim, secTitleForSim, dateScore) ==
        IF checkMediaTypeMismatch(rawPrimaryTitle, rawSecTitle,
                                  primaryAnime.typeDescription,
                                  secAnime.typeDescription, primaryCount, secCount)
        THEN <<>>
        ELSE IF /\ dateScore = FInt(-1)
                /\ ~hasSameSeasonMarker(primaryTitleForSim, secTitleForSim,
                                        primaryAnime.typeDescription,
                                        secAnime.typeDescription)
        THEN <<>>
        ELSE IF checkSeasonMismatch(primaryTitleForSim, secTitleForSim,
                                    primaryAnime.typeDescription,
                                    secAnime.typeDescription)
        THEN <<>>
        ELSE <<WithDate(
                 Penalised(
                   FMax(calculateSimilarity(primaryTitleForSim, secTitleForSim),
                        calculateSimilarity(removeParentheses(primaryTitleForSim),
                                            removeParentheses(secTitleForSim)))),
                 dateScore)>>
  IN TheOne({Score(primaryTitleForSim, secTitleForSim, dateScore) :
                primaryTitleForSim \in {TitleForSim(rawPrimaryTitle)},
                secTitleForSim \in {TitleForSim(rawSecTitle)},
                dateScore \in {checkDateMatch(primaryAnime.startDate,
                                              secAnime.startDate)}})

\* the loop over secondaryList: [best |-> index of bestMatch (0 for null),
\* maxScore |-> the running maximum]
RECURSIVE MatchLoop(_, _, _, _)
MatchLoop(primaryAnime, secondaryList, k, acc) ==
  IF k > Len(secondaryList) THEN acc
  ELSE
    LET \* if (score > maxScore) { maxScore = score; bestMatch = secAnime; }
        Scored(score) ==
          IF score # <<>> /\ FLess(acc.maxScore, score[1])
          THEN MatchLoop(primaryAnime, secondaryList, k + 1,
                         [best |-> k, maxScore |-> score[1]])
          ELSE MatchLoop(primaryAnime, secondaryList, k + 1, acc)
    IN Scored(CandidateScore(primaryAnime, secondaryList[k],
                             BestKnownCount(primaryAnime),
                             BestKnownCount(secondaryList[k])))

\* a matcher that never finds a candidate
NoMatch(primaryAnime, secondaryList) == 0

\* the index in secondaryList of the returned entry, 0 for null
findSecondaryMatch(primaryAnime, secondaryList) ==
  IF Len(secondaryList) = 0 THEN 0
  ELSE LET \* maxScore >= 0.6
           Result(r) == IF ~FLess(r.maxScore, Frac(3, 5)) THEN r.best ELSE 0
       IN Result(MatchLoop(primaryAnime, secondaryList, 1,
                           [best |-> 0, maxScore |-> FInt(0)]))

\* ------------------------------------------------------------------------
\* The inputs: entries, their cached links, and the group configurations
\* ------------------------------------------------------------------------

Sources == {"A", "B", "C"}

\* The ids of the entries by position. The first two are chosen so that the
\* merged-id string "731910_28_A&B" hashes to the minimum 32-bit value.
EntryId(k) == IF k = 1 THEN 731910 ELSE IF k = 2 THEN 28 ELSE 100 + k

\* the label a source writes in front of its episode titles
SourceLabel(source) == IF source = "C" THEN "C1" ELSE source

\* the url a source gives episode n of entry id: a bare id, an id with the
\* source prefix, or a full URL
SourceUrl(source, id, n) ==
  IF source = "A" THEN "a" \o ToString(id) \o "e" \o ToString(n)
  ELSE IF source = "B" THEN "B:" \o ToString(id) \o "e" \o ToString(n)
  ELSE "http://c/" \o ToString(id) \o "/" \o ToString(n)

\* what a search can return at position k of the list: a source, a title and
\* a number of episodes; 0 episodes stands for an entry cached without links
Catalogue(k) ==
  IF k = 1 THEN { [source |-> "A", title |-> "kx", episodes |-> 6],
                  [source |-> "A", title |-> "kx", episodes |-> 2] }
  ELSE IF k = 2 THEN { [source |-> "B", title |-> "kx", episodes |-> 1],
                       [source |-> "B", title |-> "kx", episodes |-> 6],
                       [source |-> "C", title |-> "kx", episodes |-> 2] }
  ELSE IF k = 3 THEN { [source |-> "C", title |-> "kx", episodes |-> 2],
                       [source |-> "C", title |-> "mn", episodes |-> 1],
                       [source |-> "C", title |-> "kx", episodes |-> 0],
                       [source |-> "A", title |-> "kx", episodes |-> 2],
                       [source |-> "B", title |-> "kx", episodes |-> 6] }
  ELSE { [source |-> "B", title |-> "kx", episodes |-> 2],
         [source |-> "C", title |-> "kx", episodes |-> 6] }

\* the links the cache holds for catalogue item c found as entry id
CachedLinks(c, id) ==
  [n \in 1..c.episodes |->
     [title |-> "{" \o SourceLabel(c.source) \o "} " \o ToString(n),
      url |-> SourceUrl(c.source, id, n)]]

\* an entry record; links is an index in linkStore, 0 when it has none
Entry(c, id, links) ==
  [animeId |-> id,
   bangumiId |-> ToString(id),
   animeTitle |-> c.title \o "(2020) from " \o c.source,
   source |-> c.source,
   startDate |-> [year |-> 2020, month |-> 1],
   typeDescription |-> "",
   episodeCount |-> c.episodes,
   isMerged |-> FALSE,
   links |-> links,
   sig |-> <<>>]

NoAnime == Entry([source |-> "", title |-> "", episodes |-> 0], 0, 0)

GroupConfigs ==
  { <<>>,
    <<[primary |-> "A", secondaries |-> <<"B", "C">>]>>,
    <<[primary |-> "A", secondaries |-> <<"B">>],
      [primary |-> "A", secondaries |-> <<"B", "C">>]>>,
    <<[primary |-> "A", secondaries |-> <<"B">>],
      [primary |-> "A", secondaries |-> <<"B">>]>>,
    <<[primary |-> "B", secondaries |-> <<"C", "A">>]>> }

NoTry ==
  [kind |-> "none", source |-> "", matchId |-> 0, mergedCount |-> 0,
   candidates |-> {}, consumedBefore |-> {}, linksBefore |-> <<>>,
   idBefore |-> 0, newId |-> 0, links |-> <<>>, fused |-> <<>>,
   offset |-> 0, filteredP |-> 0, filteredM |-> 0, logged |-> <<>>]

NoPrimary == [id |-> 0, wasConsumed |-> FALSE]

\* globals.episodeTitleFilter is null, a RegExp object or a string; source is
\* the pattern and flags the flags of the RegExp object
NoFilter == [type |-> "null", source |-> "", flags |-> ""]

\* no call of generateSafeMergedId is being followed
IdIdle ==
  /\ idInput = [id1 |-> 0, id2 |-> 0, salt |-> ""]
  /\ idStr = ""
  /\ idPos = 0
  /\ idHash = 0
  /\ idResult = <<>>

\* no helper function is being called on its own
FnIdle ==
  /\ fn = ""
  /\ fnArgs = <<>>
  /\ fnResult = <<>>

\* applyMergeLogic has not been called
MergeIdle ==
  /\ pc = "idle"
  /\ runs = 0
  /\ groupIdx = 0 /\ rotIdx = 0 /\ primaryItems = <<>> /\ primIdx = 0 /\ secIdx = 0
  /\ derivedAnime = NoAnime
  /\ actualMergedSources = <<>>
  /\ contentSignatureParts = <<>>
  /\ hasMergedAny = FALSE
  /\ newMergedAnimes = <<>>
  /\ generatedSignatures = {}
  /\ globalConsumedIds = {}
  /\ groupConsumedIds = {}
  /\ emitted = <<>>
  /\ lastTry = NoTry
  /\ lastPrimary = NoPrimary
  /\ fused = <<>>
  /\ cache0 = [animes |-> animes, linkStore |-> linkStore]
  /\ logs = <<>>

Init ==
  /\ \E f \in [1..NumEntries -> UNION {Catalogue(k) : k \in 1..NumEntries}] :
       /\ \A k \in 1..NumEntries : f[k] \in Catalogue(k)
       /\ curAnimes = [k \in 1..NumEntries |-> Entry(f[k], EntryId(k), 0)]
       /\ animes = [k \in 1..NumEntries |->
                      Entry(f[k], EntryId(k), IF f[k].episodes = 0 THEN 0 ELSE k)]
       /\ linkStore = [k \in 1..NumEntries |-> CachedLinks(f[k], EntryId(k))]
  /\ mergeSourcePairs \in GroupConfigs
  /\ episodeTitleFilter = NoFilter
  /\ MergeIdle
  /\ IdIdle
  /\ FnIdle

\* One group [A, B] and a search that returned one entry of A and one of B
\* with the same title and the same number n of numbered episodes, in either
\* order.
InitPair ==
  /\ \E title \in {"kx", "mn"}, n \in 1..MaxPairEpisodes, first \in {"A", "B"} :
       LET c(k) == [source |-> IF k = 1 THEN first
                               ELSE IF first = "A" THEN "B" ELSE "A",
                    title |-> title, episodes |-> n]
       IN /\ curAnimes = [k \in 1..2 |-> Entry(c(k), EntryId(k), 0)]
          /\ animes = [k \in 1..2 |-> Entry(c(k), EntryId(k), k)]
          /\ linkStore = [k \in 1..2 |-> CachedLinks(c(k), EntryId(k))]
  /\ mergeSourcePairs = <<[primary |-> "A", secondaries |-> <<"B">>]>>
  /\ episodeTitleFilter = NoFilter
  /\ MergeIdle
  /\ IdIdle
  /\ FnIdle

\* One group [A, B], an entry of A and an entry of B with the same title and
\* two numbered episodes each, a promotional link at position p of A (none
\* when p = 0) and at the end of B (none when q = 0), and an episode-title
\* filter: none, a RegExp object, a string that compiles or one that does not.
InitFilter ==
  /\ \E p \in 0..3, q \in 0..1 :
       LET c(k) == [source |-> IF k = 1 THEN "A" ELSE "B", title |-> "kx",
                    episodes |-> 2]
           Promo(k) == [title |-> "{" \o c(k).source \o "} PV",
                        url |-> SourceUrl(c(k).source, EntryId(k), 9)]
           WithPromo(links, k, at) ==
             IF at = 0 THEN links
             ELSE SubSeq(links, 1, at - 1) \o <<Promo(k)>>
                    \o SubSeq(links, at, Len(links))
           Links(k) == WithPromo(CachedLinks(c(k), EntryId(k)), k,
                                 IF k = 1 THEN p ELSE 3 * q)
       IN /\ curAnimes = [k \in 1..2 |-> Entry(c(k), EntryId(k), 0)]
          /\ animes = [k \in 1..2 |-> Entry(c(k), EntryId(k), k)]
          /\ linkStore = [k \in 1..2 |-> Links(k)]
  /\ mergeSourcePairs = <<[primary |-> "A", secondaries |-> <<"B">>]>>
  /\ episodeTitleFilter \in
       { NoFilter,
         [type |-> "RegExp", source |-> "PV|CM", flags |-> ""],
         [type |-> "string", source |-> "pv", flags |-> ""],
         [type |-> "string", source |-> "cm|pv", flags |-> ""],
         [type |-> "string", source |-> "(pv", flags |-> ""],
         [type |-> "string", source |-> "pv)", flags |-> ""] }
  /\ MergeIdle
  /\ IdIdle
  /\ FnIdle

\* One group of two sources, one of which may be animeko, a primary entry
\* with pn numbered episodes and a secondary entry of the same title with sn
\* episodes, numbered or all openings.
InitGate ==
  /\ \E group \in {<<"A", "B">>, <<"animeko", "B">>, <<"A", "animeko">>},
         pn \in 1..MaxGateEpisodes, sn \in 1..2, openings \in BOOLEAN :
       LET c(k) == [source |-> group[k], title |-> "kx",
                    episodes |-> IF k = 1 THEN pn ELSE sn]
           Openings == [n \in 1..sn |->
                          [title |-> "{" \o group[2] \o "} opening " \o ToString(n),
                           url |-> SourceUrl(group[2], EntryId(2), n)]]
       IN /\ curAnimes = [k \in 1..2 |-> Entry(c(k), EntryId(k), 0)]
          /\ animes = [k \in 1..2 |-> Entry(c(k), EntryId(k), k)]
          /\ linkStore = [k \in 1..2 |->
                           IF k = 2 /\ openings THEN Openings
                           ELSE CachedLinks(c(k), EntryId(k))]
          /\ mergeSourcePairs = <<[primary |-> group[1], secondaries |-> <<group[2]>>]>>
  /\ episodeTitleFilter = NoFilter
  /\ MergeIdle
  /\ IdIdle
  /\ FnIdle

\* One group [A, B], an entry of A and an entry of B with the same title and
\* up to MaxSpecialLen episodes each; an episode of A is numbered, an opening
\* or 'Bloopers', an episode of B is numbered or an opening.
InitSpecial ==
  /\ \E pn \in 1..MaxSpecialLen, sn \in 1..MaxSpecialLen :
       \E pk \in [1..pn -> {"", "opening ", "Bloopers "}],
          sk \in [1..sn -> {"", "opening "}] :
         LET c(k) == [source |-> IF k = 1 THEN "A" ELSE "B", title |-> "kx",
                      episodes |-> IF k = 1 THEN pn ELSE sn]
             Links(k, kinds) ==
               [n \in 1..c(k).episodes |->
                  [title |-> "{" \o c(k).source \o "} " \o kinds[n] \o ToString(n),
                   url |-> SourceUrl(c(k).source, EntryId(k), n)]]
         IN /\ curAnimes = [k \in 1..2 |-> Entry(c(k), EntryId(k), 0)]
            /\ animes = [k \in 1..2 |-> Entry(c(k), EntryId(k), k)]
            /\ linkStore = <<Links(1, pk), Links(2, sk)>>
  /\ mergeSourcePairs = <<[primary |-> "A", secondaries |-> <<"B">>]>>
  /\ episodeTitleFilter = NoFilter
  /\ MergeIdle
  /\ IdIdle
  /\ FnIdle

\* ------------------------------------------------------------------------
\* applyMergeLogic: helpers
\* ------------------------------------------------------------------------

\* [group.primary, ...group.secondaries]
fullPriorityList(group) == <<group.primary>> \o group.secondaries

groupFingerprint(group) == Join(fullPriorityList(group), "&")

\* curAnimes.filter(a => a.source === currentPrimarySource)
AllSourceItems(source) ==
  LET Keep(a) == a.source = source IN SelectSeq(curAnimes, Keep)

\* the items of the source, the last of the list first
LastFirstItems(source) ==
  [k \in 1..Len(AllSourceItems(source)) |->
     AllSourceItems(source)[Len(AllSourceItems(source)) + 1 - k]]

\* allSourceItems.filter(a => !groupConsumedIds.has(a.animeId))
PrimaryItems(source) ==
  LET Keep(a) == a.animeId \notin groupConsumedIds
  IN SelectSeq(AllSourceItems(source), Keep)

\* the same without the test of groupConsumedIds
UnfilteredItems(source) == AllSourceItems(source)

\* curAnimes.filter(a => a.source === secSource && !groupConsumedIds.has(a.animeId))
SecondaryItems(source) ==
  LET Keep(a) == a.source = source /\ a.animeId \notin groupConsumedIds
  IN SelectSeq(curAnimes, Keep)

\* globals.animes.find(a => String(a.animeId) === String(id)): its index, 0
\* when there is none
FindCached(id) ==
  LET ks == {k \in 1..Len(animes) : Str(animes[k].animeId) = Str(id)}
  IN IF ks = {} THEN 0 ELSE CHOOSE k \in ks : \A j \in ks : k <= j

\* a copy that shares the link array of the cached entry
ShallowClone(cached, fresh) == cached

\* JSON.parse(JSON.stringify(cachedPAnime)): a copy with a link array of its
\* own, stored at index fresh of linkStore
JsonClone(cached, fresh) == [cached EXCEPT !.links = fresh]

\* sLabel: the label in front of the secondary link's title, else secSource
\* (sourceLink.title.match(/^{([^}\d]+)(?:\d*)}/))
SecondaryLabel(title, secSource) ==
  LET c == IndexOf(title, "}")
      inner == SubSeq(title, 2, c - 1)
      digits == {k \in 1..Len(inner) : IsDigit(CharAt(inner, k))}
      n == IF digits = {} THEN Len(inner)
           ELSE (CHOOSE k \in digits : \A j \in digits : k <= j) - 1
  IN IF /\ StartsWith(title, "{") /\ c > 2 /\ n >= 1
        /\ \A k \in (n + 1)..Len(inner) : IsDigit(CharAt(inner, k))
     THEN Trim(SubSeq(inner, 1, n))
     ELSE secSource

\* targetLink.title.replace(/^{([^}]+)}/, ...)
RelabelTitle(title, sLabel) ==
  LET c == IndexOf(title, "}")
  IN IF StartsWith(title, "{") /\ c > 2
     THEN SubSeq(title, 1, c - 1) \o DISPLAY_CONNECTOR \o sLabel
          \o SubSeq(title, c, Len(title))
     ELSE title

\* the url with the primary source put in front whatever it holds
AlwaysPrefixed(currentUrl, currentPrimarySource) ==
  currentPrimarySource \o ":" \o currentUrl

\* lines 1021-1025: the target url before the secondary part is appended
PrefixedUrl(currentUrl, currentPrimarySource) ==
  IF ~Includes(currentUrl, MERGE_DELIMITER)
     /\ ~StartsWith(currentUrl, currentPrimarySource \o ":")
  THEN currentPrimarySource \o ":" \o currentUrl
  ELSE currentUrl

\* lines 1016-1045: the target link after the fusion of sourceLink
FuseLink(targetLink, sourceLink, currentPrimarySource, secSource) ==
  [title |-> IF targetLink.title # ""
             THEN RelabelTitle(targetLink.title,
                               IF sourceLink.title # ""
                               THEN SecondaryLabel(sourceLink.title, secSource)
                               ELSE secSource)
             ELSE targetLink.title,
   url |-> PrefixedUrl(targetLink.url, currentPrimarySource) \o MERGE_DELIMITER
           \o secSource \o ":" \o sanitizeUrl(sourceLink.url)]

\* lines 996-1054, the loop over filteredMLinksWithIndex from index k on.
\* acc is [links, mergedCount, fused]: the links of derivedAnime, the count
\* of fused pairs, and per link the history of the parts appended to it.
RECURSIVE MergeLoop(_, _, _, _, _, _)
MergeLoop(filteredM, offset, currentPrimarySource, secSource, k, acc) ==
  IF k > Len(filteredM) THEN acc
  ELSE
    LET pIndex == k + offset
        sourceLink == filteredM[k].link
        targetLink == acc.links[pIndex]
    IN IF ~(pIndex >= 1 /\ pIndex <= Len(acc.links))
       THEN MergeLoop(filteredM, offset, currentPrimarySource, secSource, k + 1, acc)
       ELSE IF getSpecialEpisodeType(targetLink.title)
                 # getSpecialEpisodeType(sourceLink.title)
       \* continue
       THEN MergeLoop(filteredM, offset, currentPrimarySource, secSource, k + 1, acc)
       ELSE MergeLoop(filteredM, offset, currentPrimarySource, secSource, k + 1,
              [links |-> [acc.links EXCEPT ![pIndex] =
                            FuseLink(targetLink, sourceLink,
                                     currentPrimarySource, secSource)],
               mergedCount |-> acc.mergedCount + 1,
               fused |-> [acc.fused EXCEPT ![pIndex] =
                            Append(@, [source |-> secSource,
                                       id |-> sanitizeUrl(sourceLink.url),
                                       title |-> sourceLink.title,
                                       target |-> targetLink.title])]])

\* derivedAnime.animeTitle.replace(`from X`, `from X&...`): the first match
ReplaceFirst(str, old, new) ==
  LET k == IndexOf(str, old)
  IN IF k = 0 THEN str
     ELSE SubSeq(str, 1, k - 1) \o new \o SubSeq(str, k + Len(old), Len(str))

\* the signature of a list of ids, contentSignatureParts.join('|')
Signature(parts) == Join([k \in 1..Len(parts) |-> Str(parts[k])], "|")

\* the list with the merged entries in front, most recent first
UnshiftReversed(list, merged) ==
  [k \in 1..Len(merged) |-> merged[Len(merged) + 1 - k]] \o list

\* curAnimes.unshift(...newMergedAnimes)
Unshift(list, merged) == merged \o list

\* a clean-up that removes nothing
NoCleanup(list, consumed) == list

\* a clean-up that drops the merged entries and keeps the consumed originals
CleanupMergedOnly(list, consumed) ==
  LET Keep(item) == item.sig = <<>> IN SelectSeq(list, Keep)

\* lines 1123-1128: drop the flagged and the consumed items
Cleanup(list, consumed) ==
  LET Keep(item) == ~(item.isMerged \/ item.animeId \in consumed)
  IN SelectSeq(list, Keep)

\* the cache after addAnime(derivedAnime): the entry is inserted
addAnime(cache, anime) == Append(cache, anime)

\* a test that never finds the signature
SignatureNeverSeen(signature, generated) == FALSE

\* generatedSignatures.has(signature)
SignatureSeen(signature, generated) == signature \in generated

\* ------------------------------------------------------------------------
\* applyMergeLogic: the steps
\* ------------------------------------------------------------------------

CurrentGroup == mergeSourcePairs[groupIdx]

\* lines 895-898: the filter of the call. A string is compiled with the flag
\* i, and a string that does not compile gives null.
epFilter ==
  IF episodeTitleFilter.type = "null" \/ episodeTitleFilter.source = "" THEN <<>>
  ELSE IF episodeTitleFilter.type = "string"
  THEN NewRegExp(episodeTitleFilter.source, "i")
  ELSE NewRegExp(episodeTitleFilter.source, episodeTitleFilter.flags)

\* log(level, ...): the call is recorded by its level and its line
LogCall(level, line) == [level |-> level, line |-> line]

currentPrimarySource == fullPriorityList(CurrentGroup)[rotIdx]

\* fullPriorityList.slice(i + 1)
availableSecondaries ==
  SubSeq(fullPriorityList(CurrentGroup), rotIdx + 1, Len(fullPriorityList(CurrentGroup)))

\* lines 926-928: the later sources of the group that still have an
\* unconsumed entry
activeRemainingSourcesCount ==
  Cardinality({k \in 1..Len(availableSecondaries) :
                 \E j \in 1..Len(curAnimes) :
                    /\ curAnimes[j].source = availableSecondaries[k]
                    /\ curAnimes[j].animeId \notin groupConsumedIds})

\* where control goes when applyMergeLogic returns
Returned ==
  /\ pc' = IF runs + 1 >= MaxRuns THEN "done" ELSE "idle"
  /\ runs' = runs + 1

\* lines 888-905: the call begins
StartRun ==
  /\ pc = "idle"
  /\ cache0' = [animes |-> animes, linkStore |-> linkStore]
  /\ newMergedAnimes' = <<>>
  /\ generatedSignatures' = {}
  /\ globalConsumedIds' = {}
  /\ IF Len(mergeSourcePairs) = 0
     THEN Returned /\ logs' = <<>> /\ UNCHANGED groupIdx
     ELSE /\ pc' = "group"
          /\ groupIdx' = 1
          /\ logs' = <<LogCall("info", 892)>>
          /\ UNCHANGED runs
  /\ UNCHANGED <<curAnimes, animes, linkStore, configVars, idVars, fnVars, rotIdx, primaryItems,
                 primIdx, secIdx, primaryVars, groupConsumedIds, emitted, lastTry>>

\* lines 907-914: the next group, or the end of the groups
BeginGroup ==
  /\ pc = "group"
  /\ IF groupIdx > Len(mergeSourcePairs)
     THEN pc' = "finish" /\ UNCHANGED <<groupConsumedIds, rotIdx>>
     ELSE pc' = "rotation" /\ groupConsumedIds' = {} /\ rotIdx' = 1
  /\ UNCHANGED <<curAnimes, animes, linkStore, configVars, idVars, fnVars, runs, groupIdx,
                 primaryItems, primIdx, secIdx, primaryVars, runVars, emitted,
                 lastTry, cache0, logs>>

\* lines 918-947: the next rotation step, or the end of the group
BeginRotation ==
  /\ pc = "rotation"
  /\ IF rotIdx > Len(fullPriorityList(CurrentGroup)) - 1
     THEN /\ pc' = "group"
          /\ groupIdx' = groupIdx + 1
          /\ UNCHANGED <<rotIdx, primaryItems, primIdx, logs>>
     ELSE IF Len(AllSourceItems(currentPrimarySource)) = 0
     THEN /\ rotIdx' = rotIdx + 1
          /\ logs' = IF activeRemainingSourcesCount >= 2
                     THEN Append(logs, LogCall("info", 935))
                     ELSE logs
          /\ UNCHANGED <<pc, groupIdx, primaryItems, primIdx>>
     ELSE IF Len(PrimaryItems(currentPrimarySource)) = 0
     THEN /\ rotIdx' = rotIdx + 1
          /\ UNCHANGED <<pc, groupIdx, primaryItems, primIdx, logs>>
     ELSE /\ pc' = "primary"
          /\ primaryItems' = PrimaryItems(currentPrimarySource)
          /\ primIdx' = 1
          /\ UNCHANGED <<groupIdx, rotIdx, logs>>
  /\ UNCHANGED <<curAnimes, animes, linkStore, configVars, idVars, fnVars, runs, secIdx,
                 primaryVars, runVars, groupConsumedIds, emitted, lastTry, cache0>>

\* lines 949-962: the next primary entry, or the end of the rotation step
BeginPrimary ==
  /\ pc = "primary"
  /\ IF primIdx > Len(primaryItems)
     THEN /\ pc' = "rotation"
          /\ rotIdx' = rotIdx + 1
          /\ UNCHANGED <<primIdx, secIdx, linkStore, primaryVars, lastTry, logs>>
     ELSE
       LET pAnime == primaryItems[primIdx]
           c == FindCached(pAnime.animeId)
           fresh == Len(linkStore) + 1
       IN IF c = 0 \/ animes[c].links = 0
          THEN /\ primIdx' = primIdx + 1
               /\ logs' = Append(logs, LogCall("warn", 953))
               /\ UNCHANGED <<pc, rotIdx, secIdx, linkStore, primaryVars, lastTry>>
          ELSE /\ pc' = "secondary"
               /\ derivedAnime' = JsonClone(animes[c], fresh)
               /\ linkStore' = Append(linkStore, linkStore[animes[c].links])
               /\ actualMergedSources' = <<>>
               /\ contentSignatureParts' = <<pAnime.animeId>>
               /\ hasMergedAny' = FALSE
               /\ secIdx' = 1
               /\ fused' = [k \in 1..Len(linkStore[animes[c].links]) |-> <<>>]
               /\ lastPrimary' = [id |-> pAnime.animeId,
                                  wasConsumed |-> pAnime.animeId \in groupConsumedIds]
               /\ lastTry' = NoTry
               /\ UNCHANGED <<rotIdx, primIdx, logs>>
  /\ UNCHANGED <<curAnimes, animes, configVars, idVars, fnVars, runs, groupIdx, primaryItems,
                 runVars, groupConsumedIds, emitted, cache0>>

\* lines 965-1088 for the secondary source at secIdx: what the attempt finds
\* and what it makes of the id and the links of derivedAnime. kind is "empty"
\* (no candidate), "nomatch", "nolinks" (the match has no cached links),
\* "accepted" or "rejected".
SecondaryAttempt ==
  LET secSource == availableSecondaries[secIdx]
      pAnime == primaryItems[primIdx]
      derivedLinks == linkStore[derivedAnime.links]
      Untouched(secondaryItems, kind, id) ==
        [kind |-> kind, source |-> secSource, matchId |-> id, mergedCount |-> 0,
         candidates |-> {secondaryItems[k].animeId : k \in 1..Len(secondaryItems)},
         consumedBefore |-> groupConsumedIds,
         linksBefore |-> derivedLinks, idBefore |-> derivedAnime.animeId,
         newId |-> derivedAnime.animeId, links |-> derivedLinks, fused |-> fused,
         offset |-> 0, filteredP |-> 0, filteredM |-> 0, logged |-> <<>>]
      \* lines 989-990 and 1026-1041 have acted whatever the gate decides
      Decided(secondaryItems, match, filteredP, filteredM, offset, r, accepted) ==
        [Untouched(secondaryItems, IF accepted THEN "accepted" ELSE "rejected",
                   match.animeId)
           EXCEPT !.mergedCount = r.mergedCount,
                  !.newId = generateSafeMergedId(derivedAnime.animeId,
                              match.animeId, groupFingerprint(CurrentGroup)),
                  !.links = r.links,
                  !.fused = r.fused,
                  !.offset = offset,
                  !.filteredP = Len(filteredP),
                  !.filteredM = Len(filteredM),
                  \* lines 985-987, 1071-1075 and 1086
                  !.logged = (IF offset # 0 THEN <<LogCall("info", 986)>> ELSE <<>>)
                             \o (IF accepted
                                 THEN <<LogCall("info", 1071), LogCall("info", 1074)>>
                                 ELSE IF r.mergedCount > 0
                                 THEN <<LogCall("info", 1086)>>
                                 ELSE <<>>)]
      \* lines 1069-1070: the acceptance gate
      Gated(secondaryItems, match, filteredP, filteredM, offset, r) ==
        Decided(secondaryItems, match, filteredP, filteredM, offset, r,
                /\ r.mergedCount > 0
                /\ isMergeRatioValid(r.mergedCount, Len(filteredP), Len(filteredM),
                                     currentPrimarySource, secSource))
      Fused(secondaryItems, match, filteredP, filteredM, offset) ==
        Gated(secondaryItems, match, filteredP, filteredM, offset,
              MergeLoop(filteredM, offset, currentPrimarySource, secSource, 1,
                        [links |-> derivedLinks, mergedCount |-> 0, fused |-> fused]))
      Aligned(secondaryItems, match, filteredP, filteredM) ==
        Fused(secondaryItems, match, filteredP, filteredM,
              findBestAlignmentOffset(filteredP, filteredM))
      Cached(secondaryItems, match, c) ==
        IF c = 0 \/ animes[c].links = 0
        THEN Untouched(secondaryItems, "nolinks", match.animeId)
        ELSE Aligned(secondaryItems, match,
                     filterEpisodes(derivedLinks, epFilter),
                     filterEpisodes(linkStore[animes[c].links], epFilter))
      Matched(secondaryItems, m) ==
        IF m = 0 THEN Untouched(secondaryItems, "nomatch", 0)
        ELSE Cached(secondaryItems, secondaryItems[m],
                    FindCached(secondaryItems[m].animeId))
      Candidates(secondaryItems) ==
        IF Len(secondaryItems) = 0 THEN Untouched(secondaryItems, "empty", 0)
        ELSE Matched(secondaryItems, findSecondaryMatch(pAnime, secondaryItems))
  IN Candidates(SecondaryItems(secSource))

\* the effect of an attempt on the state
Attempted(try) ==
  /\ lastTry' = try
  /\ logs' = logs \o try.logged
  /\ IF try.kind \in {"accepted", "rejected"}
     THEN /\ derivedAnime' = [derivedAnime EXCEPT
                                !.animeId = try.newId,
                                !.bangumiId = ToString(try.newId)]
          /\ linkStore' = [linkStore EXCEPT ![derivedAnime.links] = try.links]
          /\ fused' = try.fused
     ELSE UNCHANGED <<derivedAnime, linkStore, fused>>
  /\ IF try.kind = "accepted"
     THEN /\ groupConsumedIds' = groupConsumedIds \cup {try.matchId}
          /\ globalConsumedIds' = globalConsumedIds \cup {try.matchId}
          /\ hasMergedAny' = TRUE
          /\ actualMergedSources' = Append(actualMergedSources, try.source)
          /\ contentSignatureParts' = Append(contentSignatureParts, try.matchId)
     ELSE UNCHANGED <<groupConsumedIds, globalConsumedIds, hasMergedAny,
                      actualMergedSources, contentSignatureParts>>

\* lines 965-1090: one secondary source is tried for the primary entry, or
\* the secondaries are exhausted
TrySecondary ==
  /\ pc = "secondary"
  /\ IF secIdx > Len(availableSecondaries)
     THEN /\ pc' = "emit"
          /\ UNCHANGED <<secIdx, linkStore, derivedAnime, fused, globalConsumedIds,
                         groupConsumedIds, hasMergedAny, actualMergedSources,
                         contentSignatureParts, lastTry, logs>>
     ELSE /\ pc' = pc
          /\ secIdx' = secIdx + 1
          /\ Attempted(SecondaryAttempt)
  /\ UNCHANGED <<curAnimes, animes, configVars, idVars, fnVars, runs, groupIdx, rotIdx,
                 primaryItems, primIdx, newMergedAnimes, generatedSignatures,
                 emitted, lastPrimary, cache0>>

\* lines 1092-1112: the derived entry is emitted, or dropped
FinishPrimary ==
  /\ pc = "emit"
  /\ pc' = "primary"
  /\ primIdx' = primIdx + 1
  /\ LET pAnime == primaryItems[primIdx]
         signature == Signature(contentSignatureParts)
         joinedSources == Join(actualMergedSources, DISPLAY_CONNECTOR)
         final == [derivedAnime EXCEPT
                     !.animeTitle =
                        ReplaceFirst(@, "from " \o currentPrimarySource,
                                     "from " \o currentPrimarySource
                                       \o DISPLAY_CONNECTOR \o joinedSources),
                     !.source = currentPrimarySource,
                     !.sig = contentSignatureParts]
     IN IF hasMergedAny /\ ~SignatureSeen(signature, generatedSignatures)
        THEN /\ generatedSignatures' = generatedSignatures \cup {signature}
             /\ derivedAnime' = final
             /\ animes' = addAnime(animes, final)
             /\ newMergedAnimes' = Append(newMergedAnimes, final)
             /\ groupConsumedIds' = groupConsumedIds \cup {pAnime.animeId}
             /\ globalConsumedIds' = globalConsumedIds \cup {pAnime.animeId}
             /\ emitted' = Append(emitted,
                  [run |-> runs, group |-> groupIdx, rotation |-> rotIdx,
                   fingerprint |-> groupFingerprint(CurrentGroup),
                   signature |-> signature, parts |-> contentSignatureParts,
                   sources |-> actualMergedSources, primaryId |-> pAnime.animeId,
                   primarySource |-> currentPrimarySource,
                   anime |-> final, links |-> linkStore[derivedAnime.links],
                   original |-> cache0.linkStore[
                                  animes[FindCached(pAnime.animeId)].links],
                   fused |-> fused])
        ELSE UNCHANGED <<generatedSignatures, derivedAnime, animes,
                         newMergedAnimes, groupConsumedIds, globalConsumedIds,
                         emitted>>
  /\ logs' = IF hasMergedAny
                /\ SignatureSeen(Signature(contentSignatureParts), generatedSignatures)
             THEN Append(logs, LogCall("info", 1095))
             ELSE logs
  /\ UNCHANGED <<curAnimes, linkStore, configVars, idVars, fnVars, runs, groupIdx, rotIdx,
                 primaryItems, secIdx, actualMergedSources, contentSignatureParts,
                 hasMergedAny, fused, lastPrimary, lastTry, cache0>>

\* lines 1117-1129: the merged entries go in front, the consumed ones leave
Finish ==
  /\ pc = "finish"
  /\ curAnimes' = Cleanup(Unshift(curAnimes, newMergedAnimes), globalConsumedIds)
  /\ Returned
  /\ UNCHANGED <<animes, linkStore, configVars, idVars, fnVars, loopVars, primaryVars, runVars,
                 groupConsumedIds, emitted, lastTry, cache0, logs>>

Next ==
  \/ StartRun
  \/ BeginGroup
  \/ BeginRotation
  \/ BeginPrimary
  \/ TrySecondary
  \/ FinishPrimary
  \/ Finish

Spec == Init /\ [][Next]_vars

\* applyMergeLogic called with an episode-title filter
SpecFilter == InitFilter /\ [][Next]_vars

\* applyMergeLogic called on a pair of entries that reaches the acceptance gate
SpecGate == InitGate /\ [][Next]_vars

\* applyMergeLogic called on a matching pair of entries
SpecPair == InitPair /\ [][Next]_vars

\* applyMergeLogic called on a pair of entries with special episodes
SpecSpecial == InitSpecial /\ [][Next]_vars

\* ------------------------------------------------------------------------
\* The helper functions called on their own
\* ------------------------------------------------------------------------

\* the strings of at most n characters of alphabet
RECURSIVE Strings(_, _)
Strings(alphabet, n) ==
  IF n = 0 THEN {""}
  ELSE {""} \cup {c \o w : c \in alphabet, w \in Strings(alphabet, n - 1)}

\* The kinds of candidate a primary entry "kx<season>" of January 2020 with
\* 12 episodes is matched against: the same title and date; the same title
\* one year later; a longer title; another title; the same title ten years
\* earlier; the next season; and the same title labelled as a movie, with
\* no episode count.
Candidate(kind, season, k) ==
  [Entry([source |-> "B", title |-> "", episodes |-> 12], EntryId(k), 0)
     EXCEPT !.animeTitle =
              (IF kind = "longer" THEN "kxkx"
               ELSE IF kind = "other" THEN "mnopqrst"
               ELSE "kx")
                \o (IF kind = "nextSeason" THEN " Season 3" ELSE season)
                \o (IF kind = "movie" THEN "{" \o ZhMovie \o "}" ELSE "")
                \o (IF kind = "oldDate" THEN "(2010)" ELSE "(2020)")
                \o " from B",
            !.startDate = [year |-> IF kind = "oldDate" THEN 2010
                                    ELSE IF kind = "nextYear" THEN 2021
                                    ELSE 2020,
                           month |-> 1],
            !.episodeCount = IF kind = "movie" THEN 0 ELSE 12]

\* a call of one helper function with arguments of its domain
FnInit ==
  /\ \/ /\ fn = "cleanText"
        /\ fnArgs \in [text : Strings({"S", "P", "I", "2", "-", " "}, MaxTextLen)]
     \/ /\ fn = "calculateDiceSimilarity"
        /\ fnArgs \in [s1 : Strings({"a", "b", " "}, MaxNameLen),
                        s2 : Strings({"a", "b", " "}, MaxNameLen)]
     \/ /\ fn = "calculateSimilarity"
        /\ fnArgs \in [str1 : Strings({"a", "b", "-"}, MaxNameLen),
                        str2 : Strings({"a", "b", "-"}, MaxNameLen)]
     \* lists of links whose titles have no number, no marker and no
     \* character in common
     \/ /\ fn = "findBestAlignmentOffset"
        /\ \E lenA, lenB \in 1..MaxAlignLen :
             fnArgs = [primaryLinks |->
                         [k \in 1..lenA |->
                            [link |-> [title |-> "ab", url |-> "a" \o ToString(k)],
                             originalIndex |-> k]],
                       secondaryLinks |->
                         [k \in 1..lenB |->
                            [link |-> [title |-> "cd", url |-> "c" \o ToString(k)],
                             originalIndex |-> k]]]
     \* two entries labelled as a movie, as a TV series, as both or as
     \* neither, in the title or in the type description, with or without
     \* the theatrical label and a title of two words
     \/ /\ fn = "checkMediaTypeMismatch"
        /\ \E labelA, labelB \in {"", "MOVIE", "TV", "BOTH"},
               inTitle, theatrical, spaced \in BOOLEAN,
               countA, countB \in 0..MaxCount :
             LET Words(label) == IF label = "MOVIE" THEN ZhMovie
                                 ELSE IF label = "TV" THEN ZhTv
                                 ELSE IF label = "BOTH" THEN ZhMovie \o " " \o ZhTv
                                 ELSE ""
                 Name == IF spaced THEN "k x" ELSE "kx"
                 Title(label, source) ==
                   Name \o (IF inTitle /\ label # "" THEN "{" \o Words(label) \o "}" ELSE "")
                     \o "(2020) from " \o source
                 Type(label) ==
                   (IF inTitle THEN "" ELSE Words(label))
                     \o (IF theatrical THEN ZhTheatrical ELSE "")
             IN fnArgs = [titleA |-> Title(labelA, "A"), titleB |-> Title(labelB, "B"),
                          typeDescA |-> Type(labelA), typeDescB |-> Type(labelB),
                          countA |-> countA, countB |-> countB,
                          labelA |-> labelA, labelB |-> labelB,
                          exempt |-> theatrical /\ spaced]
     \* a primary entry labelled as a TV series, with or without a season
     \* in its title, and a list of candidates, each of one kind
     \/ /\ fn = "findSecondaryMatch"
        /\ \E season \in {"", " Season 2"}, n \in 0..MaxCandidates :
             \E kinds \in [1..n -> {"same", "nextYear", "longer", "other",
                                     "oldDate", "nextSeason", "movie"}] :
               fnArgs = [primaryAnime |->
                           [Candidate("same", season, 1)
                              EXCEPT !.animeTitle = "kx" \o season \o "{" \o ZhTv
                                                      \o "}(2020) from A",
                                     !.source = "A"],
                         secondaryList |->
                           [k \in 1..n |-> Candidate(kinds[k], season, k + 1)],
                         kinds |-> kinds,
                         season |-> season]
  /\ fnResult = <<>>
  /\ curAnimes = <<>>
  /\ animes = <<>>
  /\ linkStore = <<>>
  /\ mergeSourcePairs = <<>>
  /\ episodeTitleFilter = NoFilter
  /\ MergeIdle
  /\ IdIdle

\* the function returns value
Returns(value) ==
  /\ fnResult' = Append(fnResult, value)
  /\ UNCHANGED <<curAnimes, animes, linkStore, configVars, pc, runs, loopVars,
                 primaryVars, runVars, groupConsumedIds, emitted, lastTry, cache0,
                 logs, idVars, fn, fnArgs>>

\* cleanText(text), and then cleanText of what it returned
CallCleanText ==
  /\ fn = "cleanText"
  /\ Len(fnResult) < 2
  /\ Returns(cleanText(IF fnResult = <<>> THEN fnArgs.text ELSE fnResult[1]))

CallDice ==
  /\ fn = "calculateDiceSimilarity"
  /\ fnResult = <<>>
  /\ Returns(calculateDiceSimilarity(fnArgs.s1, fnArgs.s2))

\* calculateSimilarity(str1, str2), and then calculateSimilarity(str2, str1)
CallSimilarity ==
  /\ fn = "calculateSimilarity"
  /\ Len(fnResult) < 2
  /\ Returns(IF fnResult = <<>> THEN calculateSimilarity(fnArgs.str1, fnArgs.str2)
             ELSE calculateSimilarity(fnArgs.str2, fnArgs.str1))

CallAlign ==
  /\ fn = "findBestAlignmentOffset"
  /\ fnResult = <<>>
  /\ Returns(findBestAlignmentOffset(fnArgs.primaryLinks, fnArgs.secondaryLinks))

CallMediaType ==
  /\ fn = "checkMediaTypeMismatch"
  /\ fnResult = <<>>
  /\ Returns(checkMediaTypeMismatch(fnArgs.titleA, fnArgs.titleB, fnArgs.typeDescA,
                                    fnArgs.typeDescB, fnArgs.countA, fnArgs.countB))

CallMatch ==
  /\ fn = "findSecondaryMatch"
  /\ fnResult = <<>>
  /\ Returns(findSecondaryMatch(fnArgs.primaryAnime, fnArgs.secondaryList))

FnNext ==
  \/ CallCleanText
  \/ CallDice
  \/ CallSimilarity
  \/ CallAlign
  \/ CallMediaType
  \/ CallMatch

SpecFn == FnInit /\ [][FnNext]_vars

\* ------------------------------------------------------------------------
\* generateSafeMergedId followed step by step
\* ------------------------------------------------------------------------

\* the ids and salts the calls are made with. "731910_28_A&B" hashes to the
\* minimum 32-bit value.
HashIds == {1, 28, 293, 2854, 731910, 865867, 1100665}

HashSalts == {"", "A&B", "B&C&A"}

\* lines 871-874: the call, with str built and hash at 0
HashInit ==
  /\ idInput \in [id1 : HashIds, id2 : HashIds, salt : HashSalts]
  /\ idStr = MergedIdString(idInput.id1, idInput.id2, idInput.salt)
  /\ idPos = 1
  /\ idHash = 0
  /\ idResult = <<>>
  /\ curAnimes = <<>>
  /\ animes = <<>>
  /\ linkStore = <<>>
  /\ mergeSourcePairs = <<>>
  /\ episodeTitleFilter = NoFilter
  /\ MergeIdle
  /\ FnIdle

\* lines 875-878: one turn of the loop
HashLoop ==
  /\ idResult = <<>>
  /\ idPos <= Len(idStr)
  /\ idHash' = HashStep(idHash, CharCode(CharAt(idStr, idPos)))
  /\ idPos' = idPos + 1
  /\ UNCHANGED <<idInput, idStr, idResult>>
  /\ UNCHANGED <<curAnimes, animes, linkStore, configVars, runs, pc, loopVars,
                 primaryVars, runVars, groupConsumedIds, emitted, lastTry, cache0,
                 logs, fnVars>>

\* line 880: the return
HashReturn ==
  /\ idResult = <<>>
  /\ idPos > Len(idStr)
  /\ idResult' = <<AbsMod(idHash) + IdBase>>
  /\ UNCHANGED <<idInput, idStr, idPos, idHash>>
  /\ UNCHANGED <<curAnimes, animes, linkStore, configVars, runs, pc, loopVars,
                 primaryVars, runVars, groupConsumedIds, emitted, lastTry, cache0,
                 logs, fnVars>>

HashNext ==
  \/ HashLoop
  \/ HashReturn

SpecHash == HashInit /\ [][HashNext]_vars

\* ------------------------------------------------------------------------
\* Properties
\* ------------------------------------------------------------------------

\* applyMergeLogic has returned at least once and is not running
AfterRun == pc \in {"idle", "done"} /\ runs >= 1

Ids(list) == {list[k].animeId : k \in 1..Len(list)}

Elems(seq) == {seq[k] : k \in 1..Len(seq)}

\* the merged entries emitted by the call that returned last, in order
LastRunEmitted ==
  LET InLastRun(e) == e.run = runs - 1 IN SelectSeq(emitted, InLastRun)

\* C1: after applyMergeLogic returns, no entry whose id was consumed during
\* the call, as the primary of an emitted merged entry or as an accepted
\* secondary, is still in curAnimes.
ConsumedAbsent ==
  /\ (pc = "secondary" /\ lastTry.kind = "accepted")
       => lastTry.matchId \in globalConsumedIds
  /\ AfterRun =>
       /\ Ids(curAnimes) \cap globalConsumedIds = {}
       /\ \A k \in 1..Len(LastRunEmitted) :
             Elems(LastRunEmitted[k].parts) \cap Ids(curAnimes) = {}

\* C1 witness: a call has returned after consuming a primary and a
\* secondary, and an original that was not consumed is still in the list
ConsumedAbsentWitness ==
  /\ AfterRun
  /\ Len(LastRunEmitted) >= 1
  /\ Cardinality(globalConsumedIds) >= 2
  /\ \E k \in 1..Len(curAnimes) : curAnimes[k].sig = <<>>

\* C2, state part: the merged entries emitted in one run, and those waiting
\* in newMergedAnimes, have pairwise different signatures
DistinctSignatures ==
  /\ \A a, b \in 1..Len(emitted) :
        (a < b /\ emitted[a].run = emitted[b].run)
          => emitted[a].signature # emitted[b].signature
  /\ \A a, b \in 1..Len(newMergedAnimes) :
        a < b => Signature(newMergedAnimes[a].sig) # Signature(newMergedAnimes[b].sig)

\* C2, step part: a derived entry whose signature was already generated is
\* neither inserted in the cache nor added to the output
DuplicateStep ==
  (pc = "emit" /\ hasMergedAny
     /\ Signature(contentSignatureParts) \in generatedSignatures)
  => (animes' = animes /\ newMergedAnimes' = newMergedAnimes /\ emitted' = emitted)

\* C2: within one run no two merged entries added to the output have the
\* same Signature, and a derived entry whose Signature was already generated
\* is discarded: no addAnime, no output.
SignaturesUnique == []DistinctSignatures /\ [][DuplicateStep]_vars

\* C2 witness: a derived entry with an accepted secondary has just been
\* dropped because its signature was already generated
SignaturesUniqueWitness ==
  /\ pc = "primary"
  /\ hasMergedAny
  /\ derivedAnime.sig = <<>>
  /\ lastTry.kind # "none"
  /\ Signature(contentSignatureParts) \in generatedSignatures
  /\ Len(newMergedAnimes) >= 1

\* the sources of the priority chain of a group are pairwise different
ChainDistinct(group) ==
  \A a, b \in 1..Len(fullPriorityList(group)) :
     a # b => fullPriorityList(group)[a] # fullPriorityList(group)[b]

\* C3: within a group whose chain has distinct sources, an id in the
\* group's consumption set is never offered to findSecondaryMatch again nor
\* processed as a primary again, and no id is part of two merged entries
\* emitted by the same group.
UsedOncePerGroup ==
  (\A k \in 1..Len(mergeSourcePairs) : ChainDistinct(mergeSourcePairs[k]))
  => /\ lastTry.candidates \cap lastTry.consumedBefore = {}
     /\ ~lastPrimary.wasConsumed
     /\ \A a, b \in 1..Len(emitted) :
           (a < b /\ emitted[a].run = emitted[b].run
                  /\ emitted[a].group = emitted[b].group)
             => Elems(emitted[a].parts) \cap Elems(emitted[b].parts) = {}

\* C3 witness: a secondary source is tried while an entry of that source is
\* in the list and in the group's consumption set
UsedOncePerGroupWitness ==
  /\ lastTry.kind # "none"
  /\ \E k \in 1..Len(curAnimes) :
        /\ curAnimes[k].source = lastTry.source
        /\ curAnimes[k].animeId \in lastTry.consumedBefore

\* the source names in front of the segments of a fused url
SegmentSources(url) ==
  LET segs == Split(url, MERGE_DELIMITER)
  IN {SubSeq(segs[k], 1, IndexOf(segs[k], ":") - 1) : k \in 1..Len(segs)}

\* C4: a matched secondary rejected by the acceptance gate leaves the link
\* urls and titles of the derived entry as they were before it was tried,
\* and an emitted merged entry carries url fragments of accepted sources only.
RejectedDiscarded ==
  /\ lastTry.kind = "rejected" => lastTry.links = lastTry.linksBefore
  /\ \A k \in 1..Len(emitted) :
        \A j \in 1..Len(emitted[k].links) :
           emitted[k].fused[j] # <<>> =>
             SegmentSources(emitted[k].links[j].url)
               \subseteq ({emitted[k].primarySource} \cup Elems(emitted[k].sources))

\* C5: a merged entry emitted with exactly one accepted secondary M for
\* primary P has id = generateSafeMergedId(P.id, M.id, groupFingerprint).
IdFromAcceptedOnly ==
  \A k \in 1..Len(emitted) :
     Len(emitted[k].parts) = 2 =>
       emitted[k].anime.animeId =
         generateSafeMergedId(emitted[k].parts[1], emitted[k].parts[2],
                              emitted[k].fingerprint)

\* C6: the hash stays a signed 32-bit integer, and the value returned is
\* the function of (id1, id2, salt) and lies in [1000000000, 2147483647],
\* also when the hash is the minimum 32-bit value.
MergedIdInRange ==
  /\ idHash >= -2147483647 - 1
  /\ idHash <= 2147483647
  /\ idResult # <<>> =>
       /\ idResult[1] >= 1000000000
       /\ idResult[1] <= 2147483647
       /\ idResult[1] = generateSafeMergedId(idInput.id1, idInput.id2, idInput.salt)

\* C6 witness: the call has returned and the hash is the minimum value
MergedIdInRangeWitness ==
  /\ idResult # <<>>
  /\ idHash = -2147483647 - 1

\* the url with the primary source in front once
PrefixedOnce(url, source) ==
  IF StartsWith(url, source \o ":") THEN url ELSE source \o ":" \o url

\* the segments 'secondarySource:sanitizedId' of the fusions of one link
FusedSegments(fusions) ==
  [i \in 1..Len(fusions) |-> fusions[i].source \o ":" \o fusions[i].id]

\* the position of a source in the chain a fingerprint was joined from
ChainIndex(fingerprint, source) ==
  CHOOSE i \in 1..Len(Split(fingerprint, "&")) : Split(fingerprint, "&")[i] = source

\* C7: for every link of an emitted merged entry into which secondaries
\* were fused, the url split on the delimiter is the primary's original url
\* with the primary source in front exactly once, followed by one segment
\* 'secondarySource:sanitizedId' per fused secondary, in chain order.
FusedUrlSegments ==
  \A k \in 1..Len(emitted) :
     \A j \in 1..Len(emitted[k].links) :
        emitted[k].fused[j] # <<>> =>
          /\ Split(emitted[k].links[j].url, MERGE_DELIMITER)
               = Split(PrefixedOnce(emitted[k].original[j].url,
                                    emitted[k].primarySource), MERGE_DELIMITER)
                 \o FusedSegments(emitted[k].fused[j])
          /\ \A a, b \in 1..Len(emitted[k].fused[j]) :
                a < b => ChainIndex(emitted[k].fingerprint, emitted[k].fused[j][a].source)
                           < ChainIndex(emitted[k].fingerprint,
                                        emitted[k].fused[j][b].source)

\* C7 witness: an emitted entry has a link with two fused secondaries, and
\* an emitted entry has a fused link whose original url already began with
\* the primary source
FusedUrlSegmentsWitness ==
  /\ \E k \in 1..Len(emitted) : \E j \in 1..Len(emitted[k].links) :
        Len(emitted[k].fused[j]) >= 2
  /\ \E k \in 1..Len(emitted) : \E j \in 1..Len(emitted[k].links) :
        /\ emitted[k].fused[j] # <<>>
        /\ StartsWith(emitted[k].original[j].url, emitted[k].primarySource \o ":")

\* the call of applyMergeLogic that cache0 was taken for
CurrentCall == IF pc \in {"idle", "done"} THEN runs - 1 ELSE runs

\* the merged entries emitted by that call so far
CallEmitted ==
  LET InCall(e) == e.run = CurrentCall IN SelectSeq(emitted, InCall)

\* C8: the entries the cache held when the call began keep their fields and
\* their links, and the cache differs from what it was only by the merged
\* entries inserted through addAnime.
CacheUntouched ==
  /\ \A k \in 1..Len(cache0.animes) :
        /\ k <= Len(animes)
        /\ animes[k] = cache0.animes[k]
        /\ animes[k].links # 0 =>
             linkStore[animes[k].links] = cache0.linkStore[animes[k].links]
  /\ animes = cache0.animes \o [k \in 1..Len(CallEmitted) |-> CallEmitted[k].anime]

\* C8 witness: a secondary has been fused into the clone, whose links now
\* differ from those of the cached primary it was cloned from
CacheUntouchedWitness ==
  /\ pc = "secondary"
  /\ lastTry.kind = "accepted"
  /\ FindCached(lastPrimary.id) # 0
  /\ linkStore[derivedAnime.links]
       # linkStore[animes[FindCached(lastPrimary.id)].links]

\* C9 as stated: after the call the merged entries of the call are at the
\* front of curAnimes, the one produced last first.
MergedFrontLatestFirst ==
  AfterRun =>
    /\ Len(curAnimes) >= Len(LastRunEmitted)
    /\ \A j \in 1..Len(LastRunEmitted) :
          curAnimes[j] = LastRunEmitted[Len(LastRunEmitted) + 1 - j].anime

\* C9 amended: after the call the merged entries of the call are at the
\* front of curAnimes in the order they were produced, the earliest first,
\* ahead of every other entry.
MergedFrontInOrder ==
  AfterRun =>
    /\ Len(curAnimes) >= Len(LastRunEmitted)
    /\ \A j \in 1..Len(LastRunEmitted) : curAnimes[j] = LastRunEmitted[j].anime
    /\ \A j \in (Len(LastRunEmitted) + 1)..Len(curAnimes) :
          \A k \in 1..Len(LastRunEmitted) : curAnimes[j] # LastRunEmitted[k].anime

\* C9 witness: a call has returned that produced two merged entries and
\* left an original behind them
MergedFrontInOrderWitness ==
  /\ AfterRun
  /\ Len(LastRunEmitted) >= 2
  /\ Len(curAnimes) > Len(LastRunEmitted)

\* C10: after a second call on the list and cache left by the first, no two
\* entries of the list have the same Signature, and the second call emits
\* no merged entry with a Signature the first call emitted.
NoDoubledSignature ==
  /\ AfterRun =>
       \A a, b \in 1..Len(curAnimes) :
          (a < b /\ curAnimes[a].sig # <<>>) => curAnimes[a].sig # curAnimes[b].sig
  /\ \A a, b \in 1..Len(emitted) :
        emitted[a].run < emitted[b].run => emitted[a].signature # emitted[b].signature

\* C10 witness: the second call has returned, both calls emitted a merged
\* entry, and the list holds two merged entries
NoDoubledSignatureWitness ==
  /\ AfterRun
  /\ runs >= 2
  /\ \E a, b \in 1..Len(emitted) : emitted[a].run = 0 /\ emitted[b].run = 1
  /\ \E a, b \in 1..Len(curAnimes) :
        a < b /\ curAnimes[a].sig # <<>> /\ curAnimes[b].sig # <<>>

\* C11: with one group [A, B], one entry of A and one of B that match, each
\* with n >= 1 episodes aligned pairwise, the call emits exactly one merged
\* entry, calls addAnime exactly once, removes both originals from the list,
\* and each of the n links of the merged entry has a url with an "A:" part
\* and, after the delimiter, a "B:" part.
PairMergedOnce ==
  (runs = 1 /\ pc = "idle")
    => /\ Len(emitted) = 1
       /\ Len(animes) = Len(cache0.animes) + 1
       /\ Len(curAnimes) = 1
       /\ \E a, b \in 1..2 :
            /\ cache0.animes[a].source = "A"
            /\ cache0.animes[b].source = "B"
            /\ curAnimes[1].sig = <<cache0.animes[a].animeId, cache0.animes[b].animeId>>
       /\ curAnimes[1] = animes[Len(animes)]
       /\ \A k \in 1..Len(cache0.animes) :
            \A j \in 1..Len(curAnimes) :
               curAnimes[j].animeId # cache0.animes[k].animeId
       /\ Len(linkStore[curAnimes[1].links]) = cache0.animes[1].episodeCount
       /\ \A k \in 1..Len(linkStore[curAnimes[1].links]) :
            LET url == linkStore[curAnimes[1].links][k].url
            IN /\ IndexOf(url, "A:") > 0
               /\ IndexOf(url, MERGE_DELIMITER \o "B:") > IndexOf(url, "A:")

\* the first call has returned for a pair with the largest number of episodes
PairMergedOnceWitness ==
  /\ runs = 1
  /\ pc = "idle"
  /\ Len(cache0.animes) = 2
  /\ cache0.animes[1].episodeCount = MaxPairEpisodes
  /\ Len(emitted) = 1
  /\ Len(emitted[1].links) = MaxPairEpisodes

\* C12: whenever a primary entry or a matched secondary is skipped because
\* its cached record has no links, the step that skips it makes a log call.
MissingLinksLogged ==
  [][/\ (pc = "primary" /\ pc' = "primary" /\ primIdx' = primIdx + 1)
          => Len(logs') > Len(logs)
     /\ (pc = "secondary" /\ secIdx' = secIdx + 1 /\ lastTry'.kind = "nolinks")
          => Len(logs') > Len(logs)]_vars

\* C13: when the configured episode-title filter is a string that does not
\* compile, the call logs a warning.
InvalidFilterWarned ==
  (/\ episodeTitleFilter.type = "string"
   /\ NewRegExp(episodeTitleFilter.source, "i") = <<>>
   /\ runs = 1)
    => \E k \in 1..Len(logs) : logs[k].level = "warn"

\* C18: cleanText is idempotent, cleanText(cleanText(x)) = cleanText(x), also
\* when punctuation that becomes a space stands between a season or part
\* letter and its number.
CleanTextIdempotent ==
  (fn = "cleanText" /\ Len(fnResult) = 2) => fnResult[2] = fnResult[1]

\* C14: findBestAlignmentOffset returns 0 for two non-empty lists of any
\* lengths whose titles carry no number and no marker and have no similarity.
UncorrelatedOffsetZero ==
  (fn = "findBestAlignmentOffset" /\ fnResult # <<>>) => fnResult[1] = 0

\* C15: for entries labelled with opposite media types and not exempted as
\* theatrical, checkMediaTypeMismatch returns true when an episode count is
\* 0 or when the counts differ by more than 5, and false when both counts are
\* positive and differ by at most 5; it returns false whenever a label is
\* missing or ambiguous or the labels are equal.
MediaConflictByCounts ==
  (fn = "checkMediaTypeMismatch" /\ fnResult # <<>>)
    => LET known == {"MOVIE", "TV"}
           opposite == /\ fnArgs.labelA \in known
                       /\ fnArgs.labelB \in known
                       /\ fnArgs.labelA # fnArgs.labelB
       IN /\ ~opposite => fnResult[1] = FALSE
          /\ (opposite /\ ~fnArgs.exempt)
               => fnResult[1] = (\/ fnArgs.countA = 0
                                 \/ fnArgs.countB = 0
                                 \/ fnArgs.countA - fnArgs.countB > 5
                                 \/ fnArgs.countB - fnArgs.countA > 5)

\* opposite labels, no exemption, positive counts that differ by exactly 5:
\* no conflict
MediaConflictByCountsWitness ==
  /\ fn = "checkMediaTypeMismatch"
  /\ fnResult = <<FALSE>>
  /\ fnArgs.labelA = "MOVIE"
  /\ fnArgs.labelB = "TV"
  /\ ~fnArgs.exempt
  /\ fnArgs.countA = 1
  /\ fnArgs.countB = 6

\* C16: calculateDiceSimilarity(a, b) is in [0, 1] and is 2 |A /\ B| /
\* (|A| + |B|) for the sets A and B of the characters of a and b other than
\* spaces; it is 1 when both sets are empty, the two empty strings included,
\* and 0 when exactly one is empty.
DiceAsSpecified ==
  (fn = "calculateDiceSimilarity" /\ fnResult # <<>>)
    => LET A == {SubSeq(fnArgs.s1, k, k) : k \in 1..Len(fnArgs.s1)} \ {" "}
           B == {SubSeq(fnArgs.s2, k, k) : k \in 1..Len(fnArgs.s2)} \ {" "}
           r == fnResult[1]
       IN /\ r[1] >= 0 /\ r[1] <= r[2]
          /\ IF A = {} /\ B = {} THEN r = <<1, 1>>
             ELSE r[1] * (Cardinality(A) + Cardinality(B))
                    = 2 * Cardinality(A \cap B) * r[2]

\* C17: calculateSimilarity(a, b) = calculateSimilarity(b, a) for all a and
\* b, and calculateSimilarity(a, a) = 1 for every non-empty a.
SimilaritySymmetric ==
  (fn = "calculateSimilarity" /\ Len(fnResult) = 2)
    => /\ fnResult[1] = fnResult[2]
       /\ (fnArgs.str1 = fnArgs.str2 /\ fnArgs.str1 # "") => fnResult[1] = <<1, 1>>

\* both orders have been computed for two strings of which neither contains
\* the other, and for a string that cleans to the empty string
SimilaritySymmetricWitness ==
  /\ fn = "calculateSimilarity"
  /\ Len(fnResult) = 2
  /\ \/ fnArgs.str1 = "a-a" /\ fnArgs.str2 = "bb"
     \/ fnArgs.str1 = "-" /\ fnArgs.str2 = "ab"

\* C19: a matched secondary is accepted, that is marked consumed in the
\* group and globally and recorded with its source and id as contributing,
\* exactly when mergedCount > 0 and either source is animeko, or the longer
\* filtered list has at most 5 links, or mergedCount is at least 0.18 of its
\* length; otherwise it is rejected and consumes nothing.
AcceptedByGate ==
  [][(pc = "secondary" /\ secIdx' = secIdx + 1
        /\ lastTry'.kind \in {"accepted", "rejected"})
      => LET try == lastTry'
             maxTotal == IF try.filteredP > try.filteredM
                         THEN try.filteredP ELSE try.filteredM
             gate == \/ "animeko" \in {currentPrimarySource, try.source}
                     \/ maxTotal <= 5
                     \/ 100 * try.mergedCount >= 18 * maxTotal
         IN /\ (try.kind = "accepted") = (try.mergedCount > 0 /\ gate)
            /\ IF try.kind = "accepted"
               THEN /\ groupConsumedIds' = groupConsumedIds \cup {try.matchId}
                    /\ globalConsumedIds' = globalConsumedIds \cup {try.matchId}
                    /\ actualMergedSources' = Append(actualMergedSources, try.source)
                    /\ contentSignatureParts'
                         = Append(contentSignatureParts, try.matchId)
                    /\ hasMergedAny'
               ELSE UNCHANGED <<groupConsumedIds, globalConsumedIds,
                                actualMergedSources, contentSignatureParts,
                                hasMergedAny>>]_vars

\* 2 links merged of 12 between two ordinary sources: rejected
AcceptedByGateWitness ==
  /\ pc = "emit"
  /\ lastTry.kind = "rejected"
  /\ lastTry.mergedCount = 2
  /\ lastTry.filteredP = 12
  /\ lastTry.filteredM = 2

\* C20: findSecondaryMatch returns the candidate of maximum score among the
\* admissible ones, the earliest of them when several have that score, if
\* the score is at least 0.6, and null otherwise; a candidate with a
\* media-type conflict, a hard date mismatch without a same-season waiver or
\* a season conflict is never returned; an empty list yields null.
BestAdmissibleMatch ==
  (fn = "findSecondaryMatch" /\ fnResult # <<>>)
    => LET list == fnArgs.secondaryList
           r == fnResult[1]
           Score(k) == CandidateScore(fnArgs.primaryAnime, list[k], 12,
                                      list[k].episodeCount)
           admissible == {k \in 1..Len(list) : Score(k) # <<>>}
           AtLeast(a, b) == a[1] * b[2] >= b[1] * a[2]
           rejected == {k \in 1..Len(list) :
                          \/ fnArgs.kinds[k] \in {"movie", "nextSeason"}
                          \/ fnArgs.kinds[k] = "oldDate" /\ fnArgs.season = ""}
       IN /\ r \notin rejected
          /\ rejected \cap admissible = {}
          /\ IF \E k \in admissible : AtLeast(Score(k)[1], <<3, 5>>)
             THEN /\ r \in admissible
                  /\ \A j \in admissible :
                       /\ AtLeast(Score(r)[1], Score(j)[1])
                       /\ Score(j) = Score(r) => r <= j
             ELSE r = 0

\* the old date, waived by the common season, and the next year tie at 1.0
\* and the first of them is returned
BestAdmissibleMatchWitness ==
  /\ fn = "findSecondaryMatch"
  /\ fnArgs.season = " Season 2"
  /\ fnArgs.kinds = <<"oldDate", "nextYear">>
  /\ fnResult = <<1>>

\* C21: every fused pair of a merged entry has the same special-episode type
\* on both sides, the type of a title being opening, ending or interview
\* (found in any case) or Bloopers (found as written), else none.
FusedTypesEqual ==
  LET Type(title) ==
        IF Includes(ToLower(title), "opening") THEN "opening"
        ELSE IF Includes(ToLower(title), "ending") THEN "ending"
        ELSE IF Includes(ToLower(title), "interview") THEN "interview"
        ELSE IF Includes(title, "Bloopers") THEN "Bloopers"
        ELSE ""
  IN \A e \in 1..Len(emitted) :
       \A j \in 1..Len(emitted[e].fused) :
          \A i \in 1..Len(emitted[e].fused[j]) :
             Type(emitted[e].fused[j][i].target) = Type(emitted[e].fused[j][i].title)

\* C21, the part the code keeps: in one attempt, a pair (primary link
\* k + offset, secondary link k) for which getSpecialEpisodeType differs
\* leaves the primary link and its history as they were, and mergedCount is
\* the number of the other pairs in range, each of which is fused.
DifferingPairsSkipped ==
  [][(pc = "secondary" /\ secIdx' = secIdx + 1
        /\ lastTry'.kind \in {"accepted", "rejected"})
      => LET try == lastTry'
             before == linkStore[derivedAnime.links]
             after == linkStore'[derivedAnime.links]
             filteredM == filterEpisodes(
                            linkStore[animes[FindCached(try.matchId)].links], epFilter)
             Pairs == {k \in 1..Len(filteredM) : k + try.offset \in 1..Len(before)}
             Same(k) == getSpecialEpisodeType(before[k + try.offset].title)
                          = getSpecialEpisodeType(filteredM[k].link.title)
         IN /\ \A k \in Pairs :
                  IF Same(k)
                  THEN /\ after[k + try.offset] # before[k + try.offset]
                       /\ Len(fused'[k + try.offset]) = Len(fused[k + try.offset]) + 1
                  ELSE /\ after[k + try.offset] = before[k + try.offset]
                       /\ fused'[k + try.offset] = fused[k + try.offset]
            /\ try.mergedCount = Cardinality({k \in Pairs : Same(k)})]_vars

\* an attempt fused one pair and skipped another whose types differ
DifferingPairsSkippedWitness ==
  /\ lastTry.kind = "accepted"
  /\ lastTry.mergedCount = 1
  /\ lastTry.filteredM = 2
  /\ lastTry.filteredP = 2
  /\ lastTry.offset = 0

\* C22: with an episode filter configured, no primary link that the filter
\* drops is fused with a secondary link: in every merged entry, the title a
\* primary link had when it was fused is one the filter keeps.
DroppedNeverFused ==
  \A e \in 1..Len(emitted) :
     \A j \in 1..Len(emitted[e].fused) :
        \A i \in 1..Len(emitted[e].fused[j]) :
           epFilter # <<>>
             => ~FilterMatches(epFilter[1], emitted[e].fused[j][i].target)

\* the position of an item in curAnimes, 0 when it is not there
ListIndex(item) ==
  LET First(ks) == IF ks = {} THEN 0 ELSE CHOOSE k \in ks : \A j \in ks : k <= j
  IN First({k \in 1..Len(curAnimes) : curAnimes[k] = item})

\* the merged entries of the running call and group that have id among their
\* contributing ids
EmittedWith(id) ==
  {e \in 1..Len(emitted) : /\ emitted[e].run = runs
                           /\ emitted[e].group = groupIdx
                           /\ id \in Elems(emitted[e].parts)}

\* the entry of source secSource that findSecondaryMatch would return for
\* the primary being processed if no entry were consumed, {} when none
BestOfAll(secSource) ==
  LET Best(m) == IF m = 0 THEN {} ELSE {UnfilteredItems(secSource)[m].animeId}
  IN Best(findSecondaryMatch(primaryItems[primIdx], UnfilteredItems(secSource)))

ContestedState ==
  /\ pc \in {"primary", "secondary", "emit"}
       => \A a, b \in 1..Len(primaryItems) :
             a < b => /\ ListIndex(primaryItems[a]) > 0
                      /\ ListIndex(primaryItems[a]) < ListIndex(primaryItems[b])
  /\ pc \in {"primary", "rotation"}
       => \A id \in groupConsumedIds :
             /\ Cardinality(EmittedWith(id)) <= 1
             /\ EmittedWith(id) = {}
                  => \E e \in 1..Len(emitted) :
                        /\ emitted[e].run = runs
                        /\ emitted[e].group < groupIdx
                        /\ id \in Elems(emitted[e].parts)
  /\ \A a, b \in 1..Len(emitted) :
        (a < b /\ emitted[a].run = emitted[b].run)
          => \/ emitted[a].group < emitted[b].group
             \/ /\ emitted[a].group = emitted[b].group
                /\ emitted[a].rotation <= emitted[b].rotation

\* C23, step part: the primaries of a rotation step are taken one after the
\* other; when the entry that would match the primary best has been accepted
\* into an earlier merge of the group, it is not among the candidates and is
\* not matched, and the merged entry that holds it was emitted for a primary
\* that stands earlier in the list or for an earlier rotation step.
ContestedStep ==
  /\ primIdx' \in {primIdx, primIdx + 1, 1}
  /\ groupIdx' \in {groupIdx, groupIdx + 1, 1}
  /\ rotIdx' \in {rotIdx, rotIdx + 1, 1}
  /\ (pc = "secondary" /\ secIdx' = secIdx + 1)
       => \A id \in BestOfAll(availableSecondaries[secIdx]) \cap groupConsumedIds :
             /\ id \notin lastTry'.candidates
             /\ lastTry'.matchId # id
             /\ \A e \in EmittedWith(id) :
                   \/ emitted[e].rotation < rotIdx
                   \/ \E j \in 1..(primIdx - 1) :
                         primaryItems[j].animeId = emitted[e].primaryId

ConsumedAccountedFor ==
  AfterRun =>
    \A id \in globalConsumedIds :
       \E k \in 1..Len(curAnimes) : id \in Elems(curAnimes[k].sig)

\* C24, step part: the step that ends the call keeps every entry of the list
\* that is neither consumed nor flagged as merged, and keeps these entries in
\* the order they had.
SurvivorsKept ==
  pc = "finish" =>
    LET Stays(k) == /\ curAnimes[k].animeId \notin globalConsumedIds
                    /\ ~curAnimes[k].isMerged
        After(k) == {j \in 1..Len(curAnimes') : curAnimes'[j] = curAnimes[k]}
    IN /\ \A k \in 1..Len(curAnimes) : Stays(k) => After(k) # {}
       /\ \A a, b \in 1..Len(curAnimes) :
             (a < b /\ Stays(a) /\ Stays(b))
               => \A i \in After(a) : \A j \in After(b) : i < j

\* C24: no entry is lost by merging. After applyMergeLogic every consumed id
\* is part of the Signature of a merged entry of the output list, also when a
\* derived entry was dropped as a duplicate after its secondaries were marked
\* consumed; an original entry that is neither consumed nor flagged as merged
\* stays in the list, in its original relative order.
NoEntryLost == []ConsumedAccountedFor /\ [][SurvivorsKept]_vars

\* C24 witness: a call has returned in which a derived entry was dropped as a
\* duplicate Signature (the log call of line 1095) after its secondary was
\* consumed, and two originals are left in the list
NoEntryLostWitness ==
  /\ AfterRun
  /\ \E k \in 1..Len(logs) : logs[k].line = 1095
  /\ Cardinality(globalConsumedIds) >= 2
  /\ Cardinality({k \in 1..Len(curAnimes) : curAnimes[k].sig = <<>>}) >= 2
====
